---- MODULE Spec2Model ----
(***************************************************************************)
(* A model of the model-reaction engine: the coordinator (ModelManager),   *)
(* the validation pipeline (validateField / executeValidator) and the      *)
(* reaction graph (ReactionSystem), for a handful of concrete schemas.     *)
(*                                                                         *)
(* The engine is single-threaded and cooperative.  One action of this      *)
(* model is one run-to-completion stretch of the code between two          *)
(* suspension points: the synchronous part of a call, the settlement of    *)
(* one asynchronous validator, or the continuation of an update after its  *)
(* validation has been awaited.                                            *)
(***************************************************************************)
EXTENDS Integers, Sequences, FiniteSets, TLC

\* Number of operations a caller issues (setField, setFields, validateAll,
\* clearDirtyData); the calls made by reactions are not counted.
MaxOps == 2

\* Callbacks subscribed to the event bus in one behaviour.
MaxSubs == 2

(***************************************************************************)
(* Values.  Field values are small numbers; Undef is JavaScript's          *)
(* undefined, the value of a field that has no default and was never set.  *)
(***************************************************************************)
Undef == -1

\* JavaScript truthiness of a field value: undefined and 0 are falsy.
Truthy(v) == v # Undef /\ v # 0

\* deepEqual on primitive values is ===.
DeepEqual(x, y) == x = y

(***************************************************************************)
(* State.                                                                  *)
(***************************************************************************)
VARIABLES
    schema,      \* ModelManager.schema: which of the schemas below was given
    options,     \* ModelManager.options: debounceReactions, failFast
    data,        \* ModelManager.data
    dirty,       \* ModelManager.dirtyData (Undef: no entry)
    errors,      \* ModelManager.validationErrors
    requestIds,  \* ModelManager.validationRequestIds (0: none yet)
    timers,      \* the debounce timers armed by setTimeout, in arming order
    reactionTimeouts, \* ReactionSystem.reactionTimeouts: reaction -> timer id
    disposed,    \* dispose() has run: reactionDeps is cleared
    events,      \* EventEmitter.events: the listeners of each event, in order
    listeners,   \* every callback ever subscribed, with its invocation count
    errorListeners, \* ErrorHandler.errorListeners: the subscribers of each kind
    calls,       \* the updateField / validateAndUpdateField calls made so far
    batches,     \* the setFields / validateAll calls made so far
    settle,      \* the settled() call, if one was made
    turn,        \* whose turn of the event loop this is: "caller" or "engine"
    nextId,      \* next call identifier; doubles as the request ticket
    ops,         \* caller operations issued so far
    last         \* what the last step did (observation only)

vars == <<schema, options, data, dirty, errors, requestIds, timers,
          reactionTimeouts, disposed, events, listeners, errorListeners, calls, batches, settle, turn,
          nextId, ops, last>>

(***************************************************************************)
(* The schemas.                                                            *)
(*   "abc":    a: validated input with a transform; b: free input without  *)
(*             a default; c: derived, c = f(a, b).                         *)
(*   "chain":  a -> b -> c, b = 2a validated synchronously, c = b + 1.     *)
(*   "chainA": the chain with an asynchronous validator on c.              *)
(*   "cycle":  x = y + 1 and y = x + 1.                                    *)
(*   "self":   s depends on itself.                                        *)
(*   "form":   two validated inputs a and b, b's first validator being     *)
(*             asynchronous, and c = b + 1.                                *)
(*   "fan":    inputs a and u (u without a default); b = a + u with a      *)
(*             compute that throws for a = 2 and a transform that throws   *)
(*             for 2; c has two reactions, a + 1 (with an action callback) *)
(*             and u + 5.                                                  *)
(*   "twin":   input s; p and q are both given one and the same reaction   *)
(*             object, s + 1.                                              *)
(*   "gated":  inputs a and m; the validator of a declares the condition   *)
(*             m = 1.                                                      *)
(*   "multi":  input a with two synchronous validators and an              *)
(*             asynchronous one.                                           *)
(* "zz" is a name no schema declares.                                      *)
(***************************************************************************)
FieldOrder ==
    CASE schema = "cycle" -> <<"x", "y">>
      [] schema = "self"  -> <<"s">>
      [] schema = "form"  -> <<"a", "b", "c">>
      [] schema = "fan"   -> <<"a", "u", "b", "c">>
      [] schema = "twin"  -> <<"s", "p", "q">>
      [] schema = "gated" -> <<"a", "m">>
      [] schema = "multi" -> <<"a">>
      [] OTHER            -> <<"a", "b", "c">>

Fields == {FieldOrder[i] : i \in 1..Len(FieldOrder)}

Names == Fields \cup {"zz"}

\* The values a caller passes for each name.
Inputs(f) ==
    CASE schema = "abc"   -> IF f = "a" THEN {0, 1, 2, 4} ELSE {1}
      [] schema = "cycle" -> IF f = "x" THEN {1} ELSE {}
      [] schema = "self"  -> {1, 2}
      [] schema = "form"  -> CASE f = "a" -> {0, 1} [] f = "b" -> {0, 1, 2} [] OTHER -> {}
      [] schema = "fan"   -> CASE f = "a" -> {1, 2} [] f = "u" -> {1} [] OTHER -> {}
      [] schema = "twin"  -> IF f = "s" THEN {1, 2} ELSE {}
      [] schema = "gated" -> {0, 1}
      [] schema = "multi" -> {0, 1, 2, 3}
      [] OTHER            -> IF f = "a" THEN {1, 2} ELSE {}

\* The values a caller passes in a setFields map.
BatchInputs(f) == IF f = "a" THEN {0, 4} ELSE {1}

\* The events with subscribers: field:change of the ModelManager, and
\* "ping", an event of an EventEmitter used on its own.
EventNames == {"field:change", "ping"}

\* The kinds of error of the ErrorHandler.  The forwarders that the
\* constructor subscribes are not listed in errorListeners: they are the
\* counters of the observation record.
ErrorTypes == {"VALIDATION", "REACTION", "FIELD_NOT_FOUND", "DEPENDENCY_ERROR",
               "CIRCULAR_DEPENDENCY", "UNKNOWN"}

\* What a subscribed callback does: return, throw, or emit its own event
\* again the first time it is invoked.
Behaviours(e) == IF e = "ping" THEN {"ok", "throw", "reemit"} ELSE {"ok", "throw"}

SchemaDefault(f) ==
    CASE schema = "abc" /\ f = "a" -> 1
      [] schema = "abc" /\ f = "b" -> Undef
      [] schema = "fan" /\ f = "u" -> Undef
      [] OTHER                     -> 0

HasTransform(f) == (schema = "abc" /\ f = "a") \/ (schema = "fan" /\ f = "b")

\* The transforms clamp their input to 3.
SchemaTransform(f, v) == IF v > 3 THEN 3 ELSE v

\* The transform of fan's b throws for 2.
TransformThrows(f, v) == schema = "fan" /\ f = "b" /\ v = 2

\* Validators in declaration order.  "required" is synchronous and rejects
\* 0 and undefined; "remote" returns a promise and rejects 2; "range" is
\* synchronous and accepts every number; "slow" returns a promise and
\* accepts everything.
SchemaValidators(f) ==
    CASE schema \in {"abc", "form"} /\ f = "a" ->
            << [rule |-> "required", async |-> FALSE, accepts |-> {1, 2, 3, 4}],
               [rule |-> "remote",   async |-> TRUE,  accepts |-> {0, 1, 3, 4, Undef}] >>
      [] schema = "form" /\ f = "b" ->
            << [rule |-> "remote",   async |-> TRUE,  accepts |-> {0, 1, 3, 4, Undef}],
               [rule |-> "required", async |-> FALSE, accepts |-> {1, 2, 3, 4}],
               [rule |-> "slow",     async |-> TRUE,  accepts |-> 0..9] >>
      [] schema \in {"chain", "chainA"} /\ f = "b" ->
            << [rule |-> "range", async |-> FALSE, accepts |-> 0..9] >>
      [] schema = "chainA" /\ f = "c" ->
            << [rule |-> "remote", async |-> TRUE, accepts |-> 0..9] >>
      [] schema = "gated" /\ f = "a" ->
            << [rule |-> "required", async |-> FALSE, accepts |-> {1, 2, 3, 4}] >>
      [] schema = "multi" /\ f = "a" ->
            << [rule |-> "required", async |-> FALSE, accepts |-> {1, 2, 3, 4}],
               [rule |-> "min",      async |-> FALSE, accepts |-> {2, 3, 4}],
               [rule |-> "remote",   async |-> TRUE,  accepts |-> {0, 1, 3, 4, Undef}] >>
      [] OTHER -> << >>

\* Validator.condition of the i-th validator of f, as a predicate over the
\* data object: declared by gated's a (m = 1), absent (TRUE) elsewhere.
\* Nothing in the engine calls it.
Condition(f, i, d) == (schema = "gated" /\ f = "a") => d["m"] = 1

\* Reactions, in the order collectReactions meets them.  rc is attached to
\* c and depends on a and b; double to b, succ to c; xr to x, yr to y; sr to
\* s; echo to c and depends on b; boom to b and depends on a and u; next and
\* fromU to c, depending on a and on u.
ReactionOrder ==
    CASE schema = "abc"   -> <<"rc">>
      [] schema = "fan"   -> <<"boom", "next", "fromU">>
      [] schema = "twin"  -> <<"shP", "shQ">>
      [] schema = "gated" -> << >>
      [] schema = "multi" -> << >>
      [] schema = "form"  -> <<"echo">>
      [] schema = "cycle" -> <<"xr", "yr">>
      [] schema = "self"  -> <<"sr">>
      [] OTHER            -> <<"double", "succ">>

Reactions == {ReactionOrder[i] : i \in 1..Len(ReactionOrder)}

Owner(r) ==
    CASE r = "rc"     -> "c"
      [] r = "double" -> "b"
      [] r = "succ"   -> "c"
      [] r = "echo"   -> "c"
      [] r = "boom"   -> "b"
      [] r = "shP"    -> "p"
      [] r = "shQ"    -> "q"
      [] r = "next"   -> "c"
      [] r = "fromU"  -> "c"
      [] r = "xr"     -> "x"
      [] r = "yr"     -> "y"
      [] OTHER        -> "s"

Deps(r) ==
    CASE r = "rc"     -> <<"a", "b">>
      [] r = "double" -> <<"a">>
      [] r = "succ"   -> <<"b">>
      [] r = "echo"   -> <<"b">>
      [] r = "boom"   -> <<"a", "u">>
      [] r = "next"   -> <<"a">>
      [] r = "fromU"  -> <<"u">>
      [] r = "xr"     -> <<"y">>
      [] r = "yr"     -> <<"x">>
      [] OTHER        -> <<"s">>

\* computed(values).  rc: a + b, a alone while b is undefined; double: 2a;
\* succ, echo, xr, yr, next: dependency + 1; sr: s + 1 up to its fixed point
\* 2; boom: a + u, a alone while u is undefined; fromU: u + 5.
Compute(r, vals) ==
    CASE r = "rc"     -> IF vals[2] = Undef THEN vals[1] ELSE vals[1] + vals[2]
      [] r = "boom"   -> IF vals[2] = Undef THEN vals[1] ELSE vals[1] + vals[2]
      [] r = "fromU"  -> IF vals[1] = Undef THEN Undef ELSE vals[1] + 5
      [] r = "double" -> IF vals[1] = Undef THEN Undef ELSE 2 * vals[1]
      [] r = "sr"     -> IF vals[1] = Undef \/ vals[1] >= 2 THEN vals[1] ELSE vals[1] + 1
      [] OTHER        -> IF vals[1] = Undef THEN Undef ELSE vals[1] + 1

\* The Reaction object of an (owner, reaction) pair: the schema "twin" gives
\* the same object to p and to q, everywhere else each pair has its own.
Object(r) == IF r \in {"shP", "shQ"} THEN "shared" ELSE r

\* boom's computed throws when a is 2.
ComputeThrows(r, vals) == r = "boom" /\ vals[1] = 2

\* next declares an action callback.
HasAction(r) == r = "next"


(***************************************************************************)
(* The code between two suspension points is a function from engine state  *)
(* to engine state.  An engine state is the record                         *)
(*   [data, dirty, errors, req, timers, reactionTimeouts, events,          *)
(*    listeners, errorListeners, calls, nextId, obs]                       *)
(* where obs collects what the stretch emitted and dispatched.             *)
(***************************************************************************)
NoObs ==
    [changes  |-> << >>,   \* field:change events, in emission order
     notFound |-> 0,       \* FIELD_NOT_FOUND errors dispatched
     nfEvents |-> 0,       \* field:not-found bus events
     valErr   |-> 0,       \* VALIDATION errors dispatched
     depErr   |-> 0,       \* DEPENDENCY_ERROR errors dispatched
     circ     |-> 0,       \* CIRCULAR_DEPENDENCY errors dispatched
     complete |-> 0,       \* validation:complete events
     cleared  |-> 0,       \* pending timers cancelled by clearTimeout
     collapsed |-> 0,      \* triggers the timer that fired stood for
     runs     |-> << >>,   \* reactions whose computed() ran, in order
     heard    |-> << >>,   \* listeners invoked, in order
     reactErr |-> 0,       \* REACTION errors dispatched
     actions  |-> << >>,   \* action callbacks invoked, in order
     unhandled |-> 0,      \* promises rejected with nobody awaiting them
     thrown   |-> FALSE]   \* an exception is propagating up the call stack

Engine ==
    [data |-> data, dirty |-> dirty, errors |-> errors, req |-> requestIds,
     timers |-> timers, reactionTimeouts |-> reactionTimeouts,
     events |-> events, listeners |-> listeners,
     errorListeners |-> errorListeners,
     calls |-> calls, nextId |-> nextId, obs |-> NoObs]

Range(seq) == {seq[i] : i \in 1..Len(seq)}

\* The keys of validationErrors: the fields, and the key the reaction system
\* files its failures under (an absent key reads as no records).
ErrorKeys == Fields \cup {"__reactions"}

\* The forwarder registered by setupErrorHandling turns every FIELD_NOT_FOUND
\* error into one field:not-found event.
FieldNotFound_Silent(s, field) == s

\* forEach over the subscribers of one kind, from the i-th on.  One that
\* throws ends the iteration and the exception goes up.
RECURSIVE InvokeEach(_, _, _)
InvokeEach(s, subs, i) ==
    IF i > Len(subs) \/ s.obs.thrown THEN s
    ELSE LET l == subs[i]
         IN  InvokeEach([s EXCEPT !.listeners[l].n = @ + 1,
                                  !.obs.heard = Append(@, l),
                                  !.obs.thrown = s.listeners[l].does = "throw"],
                        subs, i + 1)

\* triggerError: the subscribers of the error's kind, then those of UNKNOWN.
TriggerError_ExactOnly(s, type) == InvokeEach(s, s.errorListeners[type], 1)

TriggerError(s, type) ==
    InvokeEach(InvokeEach(s, s.errorListeners[type], 1),
               s.errorListeners["UNKNOWN"], 1)

FieldNotFound(s, field) ==
    TriggerError([s EXCEPT !.obs.notFound = @ + 1, !.obs.nfEvents = @ + 1],
                 "FIELD_NOT_FOUND")

\* handleValidationError: append a record to errors[field] and dispatch a
\* VALIDATION error.  "by" remembers the call whose validator produced the
\* record; a message is the sequence of its parts.
HandleValidationError(s, field, rule, id) ==
    [s EXCEPT !.errors[field] = Append(@, [rule |-> rule, by |-> id,
                                           msg |-> <<"message", rule>>]),
              !.obs.valErr = @ + 1]

\* handleExceptionError: the record of a validator that threw, rejected or
\* timed out.
HandleExceptionError(s, field, message, id) ==
    [s EXCEPT !.errors[field] = Append(@, [rule |-> "validation_error", by |-> id,
                                           msg |-> <<"Validation failed">> \o message]),
              !.obs.valErr = @ + 1]

\* executeValidator up to its first await, for each validator in turn
\* (aggregate mode): a synchronous predicate is judged at once, a promise is
\* left pending.
RECURSIVE RunValidators_StopAtFirst(_, _, _, _, _)
RunValidators_StopAtFirst(s, field, id, value, i) ==
    IF i > Len(SchemaValidators(field)) THEN s
    ELSE LET v == SchemaValidators(field)[i]
         IN  IF ~v.async /\ value \notin v.accepts
             THEN HandleValidationError(s, field, v.rule, id)
             ELSE RunValidators_StopAtFirst(s, field, id, value, i + 1)

RECURSIVE RunValidators(_, _, _, _, _)
RunValidators(s, field, id, value, i) ==
    IF i > Len(SchemaValidators(field)) THEN s
    ELSE LET v  == SchemaValidators(field)[i]
             s1 == IF ~v.async /\ value \notin v.accepts
                   THEN HandleValidationError(s, field, v.rule, id)
                   ELSE s
         IN  RunValidators(s1, field, id, value, i + 1)

SyncValid(field, value) ==
    \A i \in 1..Len(SchemaValidators(field)) :
        SchemaValidators(field)[i].async \/ value \in SchemaValidators(field)[i].accepts

SyncFailures(field, value) ==
    Cardinality({i \in 1..Len(SchemaValidators(field)) :
                    /\ ~SchemaValidators(field)[i].async
                    /\ value \notin SchemaValidators(field)[i].accepts})

AsyncValidators(field) ==
    {i \in 1..Len(SchemaValidators(field)) : SchemaValidators(field)[i].async}

\* failFast: executeValidator for the validator the loop of validateField
\* has reached.  An invalid synchronous result ends the loop.
InvokeValidator_NoBreak(s, id) ==
    LET c   == s.calls[id]
        i   == c.next
        v   == SchemaValidators(c.field)[i]
        bad == ~v.async /\ c.cand \notin v.accepts
        s1  == IF bad THEN HandleValidationError(s, c.field, v.rule, id) ELSE s
    IN  [s1 EXCEPT !.calls[id].invoked = Append(@, i),
                   !.calls[id].pend = IF v.async THEN {i} ELSE {},
                   !.calls[id].ok = @ /\ ~bad,
                   !.calls[id].nerr = @ + (IF bad THEN 1 ELSE 0),
                   !.calls[id].next = i + 1]

InvokeValidator(s, id) ==
    LET c   == s.calls[id]
        i   == c.next
        v   == SchemaValidators(c.field)[i]
        bad == ~v.async /\ c.cand \notin v.accepts
        s1  == IF bad THEN HandleValidationError(s, c.field, v.rule, id) ELSE s
    IN  [s1 EXCEPT !.calls[id].invoked = Append(@, i),
                   !.calls[id].pend = IF v.async THEN {i} ELSE {},
                   !.calls[id].ok = @ /\ ~bad,
                   !.calls[id].nerr = @ + (IF bad THEN 1 ELSE 0),
                   !.calls[id].next =
                       IF bad THEN Len(SchemaValidators(c.field)) + 1 ELSE i + 1]

\* validateField up to its first await.  Aggregate mode invokes every
\* validator; failFast invokes the first one only.
StartValidation(s, id) ==
    LET c == s.calls[id]
    IN  IF options.failFast
        THEN IF SchemaValidators(c.field) = << >> THEN s ELSE InvokeValidator(s, id)
        ELSE RunValidators(s, c.field, id, c.cand, 1)

\* The validation part of a new call record.
Validation(field, cand) ==
    IF options.failFast
    THEN [pend |-> {}, ok |-> TRUE, next |-> 1, invoked |-> << >>, nerr |-> 0]
    ELSE [pend    |-> AsyncValidators(field),
          ok      |-> SyncValid(field, cand),
          next    |-> Len(SchemaValidators(field)) + 1,
          invoked |-> [i \in 1..Len(SchemaValidators(field)) |-> i],
          nerr    |-> SyncFailures(field, cand)]

\* schema.transform applied when the schema declares one.
ApplyTransform_Skipped(field, value) == value

ApplyTransform(field, value) ==
    IF HasTransform(field) THEN SchemaTransform(field, value) ELSE value

\* The record of a call of updateField ("set") or validateAndUpdateField
\* ("va") at its entry; val is the validation part.
NewCall(kind, field, input, cand, val, stack, suppress, batch) ==
    [kind |-> kind, field |-> field, input |-> input, cand |-> cand,
     pend |-> val.pend, ok |-> val.ok,
     next |-> val.next, invoked |-> val.invoked, nerr |-> val.nerr,
     expired |-> FALSE,
     stack |-> stack, suppress |-> suppress, batch |-> batch,
     done |-> FALSE, superseded |-> FALSE, rejected |-> FALSE,
     ret |-> FALSE]

\* updateField from its entry to the await of validateSingleField, for a
\* declared field: take a ticket, clear errors[field], transform, start the
\* validators.
UpdateFieldStart(s, field, value, stack, suppress, batch) ==
    LET id   == s.nextId
        cand == ApplyTransform(field, value)
        s1   == [s EXCEPT !.req[field] = id, !.errors[field] = << >>]
        call == NewCall("set", field, value, cand, Validation(field, cand),
                        stack, suppress, batch)
    IN  IF HasTransform(field) /\ TransformThrows(field, value)
        THEN [s1 EXCEPT !.calls = @ @@ (id :> [call EXCEPT !.cand = value, !.pend = {},
                                                           !.done = TRUE, !.rejected = TRUE]),
                        !.nextId = id + 1]
        ELSE StartValidation([s1 EXCEPT !.calls = @ @@ (id :> call),
                                        !.nextId = id + 1], id)

\* reactionDeps.get(dep): the reactions indexed under a dependency field, in
\* the order collectReactions met them; dispose() empties the index.
ReactionDeps_WholeOwner(dep) ==
    IF disposed THEN << >>
    ELSE SelectSeq(ReactionOrder,
                   LAMBDA r : \E q \in Reactions :
                                  Owner(q) = Owner(r) /\ dep \in Range(Deps(q)))

ReactionDeps(dep) ==
    IF disposed THEN << >>
    ELSE SelectSeq(ReactionOrder, LAMBDA r : dep \in Range(Deps(r)))

RECURSIVE Concat(_, _)
Concat(changedFields, i) ==
    IF i > Len(changedFields) THEN << >>
    ELSE ReactionDeps(changedFields[i]) \o Concat(changedFields, i + 1)

\* Map.set keyed by the Reaction object: a key met again keeps its place and
\* takes the owner of the later pair.
RECURSIVE Dedup(_)
Dedup(seq) ==
    IF seq = << >> THEN << >>
    ELSE LET front == Dedup(SubSeq(seq, 1, Len(seq) - 1))
             x     == seq[Len(seq)]
         IN  IF \E i \in 1..Len(front) : Object(front[i]) = Object(x)
             THEN [i \in 1..Len(front) |->
                      IF Object(front[i]) = Object(x) THEN x ELSE front[i]]
             ELSE Append(front, x)

\* The keys of the Map<Reaction, string> built by triggerReactionsForFields,
\* in insertion order: every reaction once.
ReactionsToTrigger_PerKey(changedFields) == Concat(changedFields, 1)

ReactionsToTrigger(changedFields) == Dedup(Concat(changedFields, 1))

\* handleReactionError: dispatch a REACTION error, then file one record under
\* '__reactions' through the setError callback.
HandleReactionError_NoRecord(s, field) ==
    TriggerError([s EXCEPT !.obs.reactErr = @ + 1], "REACTION")

HandleReactionError(s, field) ==
    LET s1 == TriggerError([s EXCEPT !.obs.reactErr = @ + 1], "REACTION")
    IN  IF s1.obs.thrown THEN s1
        ELSE [s1 EXCEPT !.errors["__reactions"] =
                  Append(@, [rule |-> "reaction_error", by |-> field,
                             msg |-> <<"Computation error">>])]

\* reaction.action(...), called right after setValue returned its promise:
\* the record keeps the owner's value at that moment.
InvokeAction(s, field, r, computed) ==
    IF HasAction(r)
    THEN [s EXCEPT !.obs.actions = Append(@, [reaction |-> r, owner |-> field,
                                             seen |-> s.data[field],
                                             computed |-> computed])]
    ELSE s

\* callbacks.setValue(...) is not awaited: when the promise of call id was
\* rejected, nobody handles the rejection.
Unawaited(s, id) ==
    IF s.calls[id].rejected THEN [s EXCEPT !.obs.unhandled = @ + 1] ELSE s

ProcessReaction_StopOnMissing(s, field, r, stack) ==
    LET vals == [i \in 1..Len(Deps(r)) |-> s.data[Deps(r)[i]]]
        miss == Cardinality({i \in 1..Len(Deps(r)) : vals[i] = Undef})
        s1   == [s EXCEPT !.obs.depErr = @ + miss, !.obs.runs = Append(@, r)]
    IN  IF miss > 0 THEN s1
        ELSE UpdateFieldStart(s1, field, Compute(r, vals), stack, FALSE, 0)

\* processReaction: gather the dependency values, report the undefined ones,
\* compute, start (without awaiting) the update of the owner field, call the
\* action; what compute or the action throws goes to handleReactionError, a
\* rejection of the update's promise goes nowhere.
ProcessReaction(s, field, r, stack) ==
    LET vals == [i \in 1..Len(Deps(r)) |-> s.data[Deps(r)[i]]]
        miss == Cardinality({i \in 1..Len(Deps(r)) : vals[i] = Undef})
        s1   == [s EXCEPT !.obs.depErr = @ + miss, !.obs.runs = Append(@, r)]
    IN  IF ComputeThrows(r, vals) THEN HandleReactionError(s1, field)
        ELSE InvokeAction(
                 Unawaited(UpdateFieldStart(s1, field, Compute(r, vals),
                                            stack, FALSE, 0),
                           s.nextId),
                 field, r, Compute(r, vals))

HasTimer(ts, r) == \E i \in 1..Len(ts) : Object(ts[i].reaction) = Object(r)

\* How many triggers the pending timer of r stands for.
Collapsed(ts, r) ==
    IF HasTimer(ts, r)
    THEN (CHOOSE t \in Range(ts) : Object(t.reaction) = Object(r)).n
    ELSE 0

\* reactionTimeouts is a Map from the reaction object to the identifier that
\* setTimeout returned; it is kept as the set of its entries.
HasEntry(m, r) == \E e \in m : e.reaction = Object(r)

EntryId(m, r) == (CHOOSE e \in m : e.reaction = Object(r)).id

MapSet(m, r, id) ==
    {e \in m : e.reaction # Object(r)} \cup {[reaction |-> Object(r), id |-> id]}

MapDelete_Kept(m, r) == m

MapDelete(m, r) == {e \in m : e.reaction # Object(r)}

\* clearTimeout(id): the timer with this identifier, if still armed, is
\* disarmed; any other identifier is ignored.
ClearTimeout(ts, id) == SelectSeq(ts, LAMBDA t : t.id # id)

\* The identifier setTimeout returns: one that no armed timer and no map
\* entry carries.
FreshTimer(s) ==
    LET used == {t.id : t \in Range(s.timers)} \cup {e.id : e \in s.reactionTimeouts}
    IN  CHOOSE n \in 1..(Cardinality(used) + 1) :
            n \notin used /\ \A k \in 1..(n - 1) : k \in used

\* scheduleReaction: cancel the timer the map holds for this reaction, then
\* either arm a new one and store it (debounceReactions > 0) or process at
\* once.
ScheduleReaction_NoCancel(s, field, r, stack) ==
    IF options.debounce > 0
    THEN LET id == FreshTimer(s)
         IN  [s EXCEPT !.timers = Append(@, [reaction |-> r, field |-> field,
                                             stack |-> stack, id |-> id,
                                             n |-> Collapsed(s.timers, r) + 1]),
                       !.reactionTimeouts = MapSet(@, r, id)]
    ELSE ProcessReaction(s, field, r, stack)

ScheduleReaction(s, field, r, stack) ==
    LET kept == IF HasEntry(s.reactionTimeouts, r)
                THEN ClearTimeout(s.timers, EntryId(s.reactionTimeouts, r))
                ELSE s.timers
        s1   == [s EXCEPT !.timers = kept,
                          !.obs.cleared = @ + (Len(s.timers) - Len(kept))]
        id   == FreshTimer(s1)
    IN  IF options.debounce > 0
        THEN [s1 EXCEPT !.timers = Append(@, [reaction |-> r, field |-> field,
                                              stack |-> stack, id |-> id,
                                              n |-> Collapsed(s.timers, r) + 1]),
                        !.reactionTimeouts = MapSet(@, r, id)]
        ELSE ProcessReaction(s1, field, r, stack)

\* The fan-out over reactionsToTrigger: a reaction whose owner is on the
\* propagation stack is refused with a CIRCULAR_DEPENDENCY error, the others
\* are scheduled with the stack extended by the changed fields.
RECURSIVE TriggerEach_NoCycleCheck(_, _, _, _, _)
TriggerEach_NoCycleCheck(s, rs, i, changedFields, stack) ==
    IF i > Len(rs) THEN s
    ELSE TriggerEach_NoCycleCheck(
             ScheduleReaction(s, Owner(rs[i]), rs[i], stack \o changedFields),
             rs, i + 1, changedFields, stack)

RECURSIVE TriggerEach_NoReturn(_, _, _, _, _)
TriggerEach_NoReturn(s, rs, i, changedFields, stack) ==
    IF i > Len(rs) THEN s
    ELSE LET r  == rs[i]
             s1 == IF Owner(r) \in Range(stack)
                   THEN [s EXCEPT !.obs.circ = @ + 1]
                   ELSE s
         IN  TriggerEach_NoReturn(
                 ScheduleReaction(s1, Owner(r), r, stack \o changedFields),
                 rs, i + 1, changedFields, stack)

RECURSIVE TriggerEach(_, _, _, _, _)
TriggerEach(s, rs, i, changedFields, stack) ==
    IF i > Len(rs) THEN s
    ELSE TriggerEach(
             IF Owner(rs[i]) \in Range(stack)
             THEN [s EXCEPT !.obs.circ = @ + 1]
             ELSE ScheduleReaction(s, Owner(rs[i]), rs[i], stack \o changedFields),
             rs, i + 1, changedFields, stack)

TriggerReactionsForFields(s, changedFields, stack) ==
    TriggerEach(s, ReactionsToTrigger(changedFields), 1, changedFields, stack)

TriggerReactions_Shallow(s, changedField, stack) ==
    IF stack # << >> THEN s
    ELSE TriggerReactionsForFields(s, <<changedField>>, stack)

TriggerReactions(s, changedField, stack) ==
    TriggerReactionsForFields(s, <<changedField>>, stack)

\* off(event, callback): the array of the event is replaced by a filtered
\* copy.
Off(s, event, id) ==
    [s EXCEPT !.events[event] = SelectSeq(@, LAMBDA l : l # id)]

\* emit(event, data): forEach over the array emit read, from its i-th
\* listener on.  A listener that returns is removed afterwards when it is a
\* once wrapper; one that throws ends the iteration and the exception goes
\* up through every frame; a "reemit" callback emits the same event from
\* inside its first invocation.
RECURSIVE EmitEach(_, _, _, _)
EmitEach(s, event, subs, i) ==
    IF i > Len(subs) \/ s.obs.thrown THEN s
    ELSE LET l     == subs[i]
             first == s.listeners[l].n = 0
             s1    == [s EXCEPT !.listeners[l].n = @ + 1,
                                !.obs.heard = Append(@, l)]
             s2    == CASE s.listeners[l].does = "throw" ->
                               [s1 EXCEPT !.obs.thrown = TRUE]
                        [] s.listeners[l].does = "reemit" /\ first ->
                               EmitEach(s1, event, s1.events[event], 1)
                        [] OTHER -> s1
             s3    == IF s.listeners[l].once /\ ~s2.obs.thrown
                      THEN Off(s2, event, l)
                      ELSE s2
         IN  EmitEach(s3, event, subs, i + 1)

Emit(s, event) == EmitEach(s, event, s.events[event], 1)

\* handleValidField: commit, drop the dirty entry, emit, fan out - all of it
\* only when the value changed.
HandleValidField_NoEqualityCheck(s, field, value, stack, suppress) ==
    LET s1 == [s EXCEPT !.data[field] = value,
                        !.dirty[field] = IF Truthy(@) THEN Undef ELSE @,
                        !.obs.changes = Append(@, field)]
        s2 == Emit(s1, "field:change")
    IN  IF suppress \/ s2.obs.thrown THEN s2 ELSE TriggerReactions(s2, field, stack)

HandleValidField_TriggerFirst(s, field, value, stack, suppress) ==
    IF DeepEqual(s.data[field], value) THEN s
    ELSE LET s0 == IF suppress THEN s ELSE TriggerReactions(s, field, stack)
             s1 == [s0 EXCEPT !.data[field] = value,
                              !.dirty[field] = IF Truthy(@) THEN Undef ELSE @,
                              !.obs.changes = Append(@, field)]
         IN  Emit(s1, "field:change")

HandleValidField(s, field, value, stack, suppress) ==
    IF DeepEqual(s.data[field], value) THEN s
    ELSE LET s1 == [s EXCEPT !.data[field] = value,
                             !.dirty[field] = IF Truthy(@) THEN Undef ELSE @,
                             !.obs.changes = Append(@, field)]
             s2 == Emit(s1, "field:change")
         IN  IF suppress \/ s2.obs.thrown THEN s2
             ELSE TriggerReactions(s2, field, stack)

HandleInvalidField(s, field, value) == [s EXCEPT !.dirty[field] = value]

\* The race check after the await: is this call's ticket still the field's?
IsLatest_Always(s, field, id) == TRUE

IsLatest(s, field, id) == s.req[field] = id

\* The promise of call id settles: rejected when an exception came up to
\* it, fulfilled with ret otherwise.
Settle(s, id, superseded, ret) ==
    [s EXCEPT !.calls[id].done = TRUE,
              !.calls[id].superseded = superseded,
              !.calls[id].rejected = s.obs.thrown,
              !.calls[id].ret = ret /\ ~s.obs.thrown]

\* updateField from the await of validateSingleField to its return.
UpdateFieldFinish(s, id) ==
    LET c      == s.calls[id]
        latest == IsLatest(s, c.field, id)
    IN  Settle(IF ~latest THEN s
               ELSE IF c.ok
                    THEN HandleValidField(s, c.field, c.cand, c.stack, c.suppress)
                    ELSE HandleInvalidField(s, c.field, c.cand),
               id, ~latest, latest /\ c.ok)

\* validateAndUpdateField up to its await: pick the candidate (the dirty
\* value when there is one), clear errors[field], start the validators.
\* It takes no ticket.
ValidateFieldStart_ClearsAll(s, field, batch) ==
    LET id    == s.nextId
        value == IF s.dirty[field] # Undef THEN s.dirty[field] ELSE s.data[field]
        call  == NewCall("va", field, value, value, Validation(field, value),
                         << >>, FALSE, batch)
    IN  StartValidation([s EXCEPT !.errors = [k \in ErrorKeys |-> << >>],
                                  !.calls = @ @@ (id :> call),
                                  !.nextId = id + 1], id)

ValidateFieldStart(s, field, batch) ==
    LET id    == s.nextId
        value == IF s.dirty[field] # Undef THEN s.dirty[field] ELSE s.data[field]
        call  == NewCall("va", field, value, value, Validation(field, value),
                         << >>, FALSE, batch)
    IN  StartValidation([s EXCEPT !.errors[field] = << >>,
                                  !.calls = @ @@ (id :> call),
                                  !.nextId = id + 1], id)

\* validateAndUpdateField after its await.
ValidateFieldFinish_NoCommit(s, id) ==
    LET c  == s.calls[id]
        s1 == IF ~c.ok
              THEN [s EXCEPT !.dirty[c.field] = c.cand]
              ELSE [s EXCEPT !.dirty[c.field] = Undef]
    IN  [s1 EXCEPT !.calls[id].done = TRUE, !.calls[id].ret = c.ok]

ValidateFieldFinish(s, id) ==
    LET c  == s.calls[id]
        s2 == [s EXCEPT !.dirty[c.field] = Undef]
        s3 == Emit([s2 EXCEPT !.data[c.field] = c.cand,
                              !.obs.changes = Append(@, c.field)],
                   "field:change")
    IN  Settle(IF ~c.ok THEN [s EXCEPT !.dirty[c.field] = c.cand]
               ELSE IF DeepEqual(s2.data[c.field], c.cand) THEN s2
               ELSE IF s3.obs.thrown THEN s3
               ELSE TriggerReactions(s3, c.field, << >>),
               id, FALSE, c.ok)

\* The entries of a setFields argument, in key order.
NameOrder == <<"a", "b", "c", "zz">>

KeySeq(K) == SelectSeq(NameOrder, LAMBDA n : n \in K)

\* setFields up to its await: updateField for every entry, reactions
\* suppressed.
RECURSIVE StartEntries_Unsuppressed(_, _, _, _, _)
StartEntries_Unsuppressed(s, keys, vals, i, batch) ==
    IF i > Len(keys) THEN s
    ELSE StartEntries_Unsuppressed(
             IF keys[i] \in Fields
             THEN UpdateFieldStart(s, keys[i], vals[keys[i]], << >>, FALSE, batch)
             ELSE FieldNotFound(s, keys[i]),
             keys, vals, i + 1, batch)

RECURSIVE StartEntries(_, _, _, _, _)
StartEntries(s, keys, vals, i, batch) ==
    IF i > Len(keys) THEN s
    ELSE StartEntries(
             IF keys[i] \in Fields
             THEN UpdateFieldStart(s, keys[i], vals[keys[i]], << >>, TRUE, batch)
             ELSE FieldNotFound(s, keys[i]),
             keys, vals, i + 1, batch)

RECURSIVE StartValidations(_, _, _)
StartValidations(s, i, batch) ==
    IF i > Len(FieldOrder) THEN s
    ELSE StartValidations(ValidateFieldStart(s, FieldOrder[i], batch), i + 1, batch)

Entries(cs, b) == {id \in DOMAIN cs : cs[id].batch = b}

(***************************************************************************)
(* Initial state: the constructor has run initializeDefaults.              *)
(***************************************************************************)
Constructed ==
    /\ data = [f \in Fields |-> SchemaDefault(f)]
    /\ dirty = [f \in Fields |-> Undef]
    /\ errors = [k \in ErrorKeys |-> << >>]
    /\ requestIds = [f \in Fields |-> 0]
    /\ timers = << >>
    /\ reactionTimeouts = {}
    /\ disposed = FALSE
    /\ events = [e \in EventNames |-> << >>]
    /\ listeners = << >>
    /\ errorListeners = [k \in ErrorTypes |-> << >>]
    /\ calls = << >>
    /\ batches = << >>
    /\ settle = [state |-> "none", at |-> 0, quiet |-> FALSE]
    /\ turn = "caller"
    /\ nextId = 1
    /\ ops = 0
    /\ last = [op |-> "init", id |-> 0, batch |-> 0, field |-> "",
               obs |-> NoObs, ret |-> FALSE]

\* The schema "abc" with the default options.
Init ==
    /\ schema = "abc"
    /\ options = [debounce |-> 0, failFast |-> FALSE]
    /\ Constructed

\* Write an engine state back to the variables.
Commit(s) ==
    /\ data' = s.data
    /\ dirty' = s.dirty
    /\ errors' = s.errors
    /\ requestIds' = s.req
    /\ timers' = s.timers
    /\ reactionTimeouts' = s.reactionTimeouts
    /\ events' = s.events
    /\ listeners' = s.listeners
    /\ errorListeners' = s.errorListeners
    /\ calls' = s.calls
    /\ nextId' = s.nextId
    /\ UNCHANGED <<schema, options>>

Observe(op, id, batch, field, s, ret) ==
    last' = [op |-> op, id |-> id, batch |-> batch, field |-> field,
             obs |-> s.obs, ret |-> ret]

(***************************************************************************)
(* Actions.                                                                *)
(***************************************************************************)
\* setField(field, value) on a declared field: runs to the await.
SetField(field, value) ==
    /\ ops < MaxOps
    /\ field \in Fields
    /\ \E s \in {UpdateFieldStart(Engine, field, value, << >>, FALSE, 0)} :
           /\ Commit(s)
           /\ Observe("set", nextId, 0, field, s, FALSE)
    /\ ops' = ops + 1
    /\ UNCHANGED <<batches, settle, disposed>>
    /\ turn' = "caller"

\* setField(field, value) on an undeclared field: returns false at once.
SetUnknownField(field, value) ==
    /\ ops < MaxOps
    /\ field \notin Fields
    /\ LET s == FieldNotFound(Engine, field)
       IN  /\ Commit(s)
           /\ Observe("notfound", 0, 0, field, s, FALSE)
    /\ ops' = ops + 1
    /\ UNCHANGED <<batches, settle, disposed>>
    /\ turn' = "caller"

\* The promise of one asynchronous validator settles.
ResolveValidator(id, i) ==
    /\ id \in DOMAIN calls
    /\ i \in calls[id].pend
    /\ LET c  == calls[id]
           v  == SchemaValidators(c.field)[i]
           ok == c.cand \in v.accepts
           s1 == IF ok THEN Engine
                 ELSE HandleValidationError(Engine, c.field, v.rule, id)
           s2 == [s1 EXCEPT !.calls[id].pend = @ \ {i},
                            !.calls[id].ok = @ /\ ok,
                            !.calls[id].nerr = @ + (IF ok THEN 0 ELSE 1),
                            !.calls[id].next = IF options.failFast /\ ~ok
                                               THEN Len(SchemaValidators(c.field)) + 1
                                               ELSE @]
       IN  /\ Commit(s2)
           /\ Observe("resolve", id, c.batch, c.field, s2, FALSE)
    /\ UNCHANGED <<batches, ops, settle, disposed>>
    /\ UNCHANGED turn

\* An updateField call resumes after its validation and returns.
FinishUpdate(id) ==
    /\ id \in DOMAIN calls
    /\ calls[id].kind = "set"
    /\ calls[id].pend = {}
    /\ calls[id].next > Len(SchemaValidators(calls[id].field))
    /\ ~calls[id].done
    /\ \E s \in {UpdateFieldFinish(Engine, id)} :
           /\ Commit(s)
           /\ Observe("finish", id, calls[id].batch, calls[id].field, s, s.calls[id].ret)
    /\ UNCHANGED <<batches, ops, settle, disposed>>
    /\ turn' = IF calls[id].stack = << >> THEN "caller" ELSE turn

\* setFields(map): starts every entry.
SetFields(K, vals) ==
    /\ ops < MaxOps
    /\ \E s \in {StartEntries(Engine, KeySeq(K), vals, 1, Len(batches) + 1)} :
       LET b == Len(batches) + 1
       IN  /\ Commit(s)
           /\ batches' = Append(batches, [kind |-> "setFields", keys |-> KeySeq(K),
                                          vals |-> [n \in Names |-> IF n \in K THEN vals[n] ELSE Undef],
                                          done |-> FALSE, ret |-> FALSE])
           /\ Observe("setFields", 0, b, "", s, FALSE)
    /\ ops' = ops + 1
    /\ UNCHANGED <<settle, disposed>>
    /\ turn' = "caller"

\* setFields resumes after Promise.all: conjunction, then the batch fan-out.
FinishSetFields(b) ==
    /\ b \in DOMAIN batches
    /\ batches[b].kind = "setFields"
    /\ ~batches[b].done
    /\ \A id \in Entries(calls, b) : calls[id].done
    /\ LET keys == batches[b].keys
           ret  == /\ \A id \in Entries(calls, b) : calls[id].ret
                   /\ Range(keys) \subseteq Fields
       IN  \E s \in {TriggerReactionsForFields(Engine, keys, << >>)} :
           /\ Commit(s)
           /\ batches' = [batches EXCEPT ![b].done = TRUE, ![b].ret = ret]
           /\ Observe("finishSetFields", 0, b, "", s, ret)
    /\ UNCHANGED <<ops, settle, disposed>>
    /\ turn' = "caller"

\* validateAll(): starts the validation of every declared field.
ValidateAll ==
    /\ ops < MaxOps
    /\ \E s \in {StartValidations(Engine, 1, Len(batches) + 1)} :
       LET b == Len(batches) + 1
       IN  /\ Commit(s)
           /\ batches' = Append(batches, [kind |-> "validateAll", keys |-> FieldOrder,
                                          vals |-> [n \in Names |-> Undef],
                                          done |-> FALSE, ret |-> FALSE])
           /\ Observe("validateAll", 0, b, "", s, FALSE)
    /\ ops' = ops + 1
    /\ UNCHANGED <<settle, disposed>>
    /\ turn' = "caller"

\* One validateAndUpdateField resumes after its validation.
FinishValidateField(id) ==
    /\ id \in DOMAIN calls
    /\ calls[id].kind = "va"
    /\ calls[id].pend = {}
    /\ calls[id].next > Len(SchemaValidators(calls[id].field))
    /\ ~calls[id].done
    /\ \E s \in {ValidateFieldFinish(Engine, id)} :
           /\ Commit(s)
           /\ Observe("finishValidate", id, calls[id].batch, calls[id].field, s, s.calls[id].ret)
    /\ UNCHANGED <<batches, ops, settle, disposed>>
    /\ UNCHANGED turn

\* validateAll resumes after Promise.all: emits validation:complete.
FinishValidateAll(b) ==
    /\ b \in DOMAIN batches
    /\ batches[b].kind = "validateAll"
    /\ ~batches[b].done
    /\ \A id \in Entries(calls, b) : calls[id].done
    /\ LET ret == \A id \in Entries(calls, b) : calls[id].ret
           s   == [Engine EXCEPT !.obs.complete = @ + 1]
       IN  /\ Commit(s)
           /\ batches' = [batches EXCEPT ![b].done = TRUE, ![b].ret = ret]
           /\ Observe("finishValidateAll", 0, b, "", s, ret)
    /\ UNCHANGED <<ops, settle, disposed>>
    /\ turn' = "caller"

\* clearDirtyData().
ClearDirtyData ==
    /\ ops < MaxOps
    /\ LET s == [Engine EXCEPT !.dirty = [f \in Fields |-> Undef]]
       IN  /\ Commit(s)
           /\ Observe("clearDirty", 0, 0, "", s, FALSE)
    /\ ops' = ops + 1
    /\ UNCHANGED <<batches, settle, disposed>>
    /\ turn' = "caller"

Next ==
    \/ \E f \in Fields : \E v \in Inputs(f) : SetField(f, v)
    \/ \E f \in Names \ Fields : \E v \in Inputs(f) : SetUnknownField(f, v)
    \/ \E id \in DOMAIN calls : \E i \in calls[id].pend : ResolveValidator(id, i)
    \/ \E id \in DOMAIN calls : FinishUpdate(id)
    \/ \E K \in SUBSET Names \ {{}} :
          \E vals \in [K -> UNION {BatchInputs(n) : n \in K}] :
              /\ \A n \in K : vals[n] \in BatchInputs(n)
              /\ SetFields(K, vals)
    \/ \E b \in DOMAIN batches : FinishSetFields(b)
    \/ ValidateAll
    \/ \E id \in DOMAIN calls : FinishValidateField(id)
    \/ \E b \in DOMAIN batches : FinishValidateAll(b)
    \/ ClearDirtyData

Spec == Init /\ [][Next]_vars

(***************************************************************************)
(* Timers, settled() and dispose().  Promise continuations are microtasks: *)
(* they all run before the event loop takes the next timer, so a timer     *)
(* callback runs only when no continuation is runnable.                    *)
(***************************************************************************)
\* Some promise continuation is ready to run.
Runnable ==
    \/ \E id \in DOMAIN calls : ~calls[id].done /\ calls[id].pend = {}
    \/ \E b \in DOMAIN batches :
          ~batches[b].done /\ \A id \in Entries(calls, b) : calls[id].done

\* The caller's code runs in a turn of its own, when no continuation is
\* runnable, or within the turn in which it issued an operation or in which
\* a promise it awaits was resolved - never in the turn of a timer callback
\* of the engine.
CallerTurn == turn = "caller" \/ ~Runnable

\* The oldest debounce timer fires: the callback armed by scheduleReaction
\* forgets the timer and processes the reaction.
FireTimer ==
    /\ timers # << >>
    /\ ~Runnable
    /\ LET t  == Head(timers)
           s0 == [Engine EXCEPT !.timers = Tail(@),
                                !.reactionTimeouts = MapDelete(@, t.reaction),
                                !.obs.collapsed = t.n]
       IN  \E s \in {ProcessReaction(s0, t.field, t.reaction, t.stack)} :
           /\ Commit(s)
           /\ Observe("fire", nextId, 0, t.field, s, FALSE)
    /\ UNCHANGED <<batches, ops, settle, disposed>>
    /\ turn' = "engine"

\* settled(): ReactionSystem.settled returns at once when no timer is
\* pending, and polls otherwise; then one more turn of the event loop.
CallSettled ==
    /\ ops < MaxOps
    /\ settle.state = "none"
    /\ settle' = [state |-> IF reactionTimeouts = {} THEN "tick" ELSE "polling",
                  at    |-> ops + 1,
                  quiet |-> \A id \in DOMAIN calls :
                                calls[id].stack = << >> => calls[id].done]
    /\ ops' = ops + 1
    /\ last' = [op |-> "settled", id |-> 0, batch |-> 0, field |-> "",
                obs |-> NoObs, ret |-> FALSE]
    /\ UNCHANGED <<schema, options, data, dirty, errors, requestIds, timers,
                   reactionTimeouts, disposed, events, listeners, errorListeners, calls, batches,
                   nextId>>
    /\ turn' = "caller"

\* The poll of ReactionSystem.settled finds no timer pending.  (A poll that
\* finds one re-arms itself and changes nothing.)
PollSettled ==
    /\ settle.state = "polling"
    /\ ~Runnable
    /\ reactionTimeouts = {}
    /\ settle' = [settle EXCEPT !.state = "tick"]
    /\ last' = [op |-> "poll", id |-> 0, batch |-> 0, field |-> "",
                obs |-> NoObs, ret |-> FALSE]
    /\ UNCHANGED <<schema, options, data, dirty, errors, requestIds, timers,
                   reactionTimeouts, disposed, events, listeners, errorListeners, calls, batches,
                   nextId, ops>>
    /\ turn' = "engine"

\* The setTimeout(resolve, 0) of ModelManager.settled fires.
ResolveSettled ==
    /\ settle.state = "tick"
    /\ ~Runnable
    /\ settle' = [settle EXCEPT !.state = "resolved"]
    /\ last' = [op |-> "resolved", id |-> 0, batch |-> 0, field |-> "",
                obs |-> NoObs, ret |-> FALSE]
    /\ UNCHANGED <<schema, options, data, dirty, errors, requestIds, timers,
                   reactionTimeouts, disposed, events, listeners, errorListeners, calls, batches,
                   nextId, ops>>
    /\ turn' = "caller"

\* dispose(): cancel and forget every timer, clear the dependency index,
\* the event bus, data, dirtyData and validationErrors.
ClearTimers_Kept(s) == s

ClearTimers(s) ==
    LET ids  == {e.id : e \in s.reactionTimeouts}
        kept == SelectSeq(s.timers, LAMBDA t : t.id \notin ids)
    IN  [s EXCEPT !.timers = kept, !.reactionTimeouts = {},
                  !.obs.cleared = @ + (Len(s.timers) - Len(kept))]

Dispose ==
    /\ ops < MaxOps
    /\ ~disposed
    /\ LET s0 == ClearTimers(Engine)
           s  == [s0 EXCEPT !.events = [e \in EventNames |-> << >>],
                            !.data = [f \in Fields |-> Undef],
                            !.dirty = [f \in Fields |-> Undef],
                            !.errors = [k \in ErrorKeys |-> << >>]]
       IN  /\ Commit(s)
           /\ Observe("dispose", 0, 0, "", s, FALSE)
    /\ disposed' = TRUE
    /\ ops' = ops + 1
    /\ UNCHANGED <<batches, settle>>
    /\ turn' = "caller"

\* A reactive schema, with or without debounce.
ReactSchemas == {"chain", "chainA", "cycle", "self"}

InitReact ==
    /\ schema \in ReactSchemas
    /\ options \in [debounce : {0, 1}, failFast : {FALSE}]
    /\ Constructed

NextReact ==
    \/ \E f \in Fields : \E v \in Inputs(f) : CallerTurn /\ SetField(f, v)
    \/ \E id \in DOMAIN calls : \E i \in calls[id].pend :
           CallerTurn /\ ResolveValidator(id, i)
    \/ \E id \in DOMAIN calls : FinishUpdate(id)
    \/ FireTimer
    \/ CallerTurn /\ CallSettled
    \/ PollSettled
    \/ ResolveSettled
    \/ CallerTurn /\ Dispose

SpecReact == InitReact /\ [][NextReact]_vars

(***************************************************************************)
(* Reaction graphs with failing computes, failing commits, action          *)
(* callbacks and several reactions on one owner.                           *)
(***************************************************************************)
GraphSchemas == {"fan", "twin"}

InitGraph ==
    /\ schema \in GraphSchemas
    /\ options \in [debounce : {0, 1}, failFast : {FALSE}]
    /\ Constructed

NextGraph ==
    \/ \E f \in Fields : \E v \in Inputs(f) : CallerTurn /\ SetField(f, v)
    \/ \E id \in DOMAIN calls : FinishUpdate(id)
    \/ FireTimer

SpecGraph == InitGraph /\ [][NextGraph]_vars

(***************************************************************************)
(* Batches on the chain, immediate and debounced.                          *)
(***************************************************************************)
InitBatch ==
    /\ schema = "chain"
    /\ options \in [debounce : {0, 1}, failFast : {FALSE}]
    /\ Constructed

NextBatch ==
    \/ \E f \in Fields : \E v \in Inputs(f) : CallerTurn /\ SetField(f, v)
    \/ \E K \in SUBSET Fields \ {{}} :
          \E vals \in [K -> UNION {BatchInputs(n) : n \in K}] :
              /\ \A n \in K : vals[n] \in BatchInputs(n)
              /\ CallerTurn
              /\ SetFields(K, vals)
    \/ \E id \in DOMAIN calls : FinishUpdate(id)
    \/ \E b \in DOMAIN batches : FinishSetFields(b)
    \/ FireTimer

SpecBatch == InitBatch /\ [][NextBatch]_vars

(***************************************************************************)
(* Overlapping setField calls on the two dependencies of one reaction.     *)
(***************************************************************************)
InitRace ==
    /\ schema = "abc"
    /\ options \in [debounce : {0, 1}, failFast : {FALSE}]
    /\ Constructed

NextRace ==
    \/ \E f \in {"a", "b"} : \E v \in Inputs(f) : CallerTurn /\ SetField(f, v)
    \/ \E id \in DOMAIN calls : \E i \in calls[id].pend :
           CallerTurn /\ ResolveValidator(id, i)
    \/ \E id \in DOMAIN calls : FinishUpdate(id)
    \/ FireTimer

SpecRace == InitRace /\ [][NextRace]_vars

(***************************************************************************)
(* The error map after a reaction failed, under every later operation.     *)
(***************************************************************************)
\* getValidationSummary(): the records of every key, flattened; each is
\* rendered as its key and message.
RECURSIVE Flat(_, _, _)
Flat(errs, keys, i) ==
    IF i > Len(keys) THEN << >>
    ELSE [k \in 1..Len(errs[keys[i]]) |-> <<keys[i]>> \o errs[keys[i]][k].msg]
         \o Flat(errs, keys, i + 1)

GetValidationSummary(errs) ==
    LET all == Flat(errs, FieldOrder \o <<"__reactions">>, 1)
    IN  IF Len(all) = 0 THEN <<"Validation passed">> ELSE all

InitSummary ==
    /\ schema = "fan"
    /\ options = [debounce |-> 0, failFast |-> FALSE]
    /\ Constructed

NextSummary ==
    \/ \E f \in Fields : \E v \in Inputs(f) : CallerTurn /\ SetField(f, v)
    \/ \E K \in SUBSET {"a", "b"} \ {{}} :
          \E vals \in [K -> UNION {BatchInputs(n) : n \in K}] :
              /\ \A n \in K : vals[n] \in BatchInputs(n)
              /\ CallerTurn
              /\ SetFields(K, vals)
    \/ \E id \in DOMAIN calls : FinishUpdate(id)
    \/ \E b \in DOMAIN batches : FinishSetFields(b)
    \/ CallerTurn /\ ValidateAll
    \/ \E id \in DOMAIN calls : FinishValidateField(id)
    \/ \E b \in DOMAIN batches : FinishValidateAll(b)
    \/ CallerTurn /\ ClearDirtyData
    \/ CallerTurn /\ Dispose

SpecSummary == InitSummary /\ [][NextSummary]_vars

(***************************************************************************)
(* The timer map of the reaction system under every operation that reads   *)
(* or writes it: scheduling, firing, settled() and dispose().              *)
(***************************************************************************)
TimerSchemas == {"fan", "twin", "chain"}

InitTimers ==
    /\ schema \in TimerSchemas
    /\ options \in [debounce : {0, 1}, failFast : {FALSE}]
    /\ Constructed

NextTimers ==
    \/ \E f \in Fields : \E v \in Inputs(f) : CallerTurn /\ SetField(f, v)
    \/ \E id \in DOMAIN calls : FinishUpdate(id)
    \/ FireTimer
    \/ CallerTurn /\ CallSettled
    \/ PollSettled
    \/ ResolveSettled
    \/ CallerTurn /\ Dispose

SpecTimers == InitTimers /\ [][NextTimers]_vars

(***************************************************************************)
(* A validator that declares a condition.                                  *)
(***************************************************************************)
InitCond ==
    /\ schema = "gated"
    /\ options \in [debounce : {0}, failFast : BOOLEAN]
    /\ Constructed

NextCond ==
    \/ \E f \in Fields : \E v \in Inputs(f) : CallerTurn /\ SetField(f, v)
    \/ \E id \in DOMAIN calls : FinishUpdate(id)

SpecCond == InitCond /\ [][NextCond]_vars

(***************************************************************************)
(* The validation pipeline: sequential fail-fast execution and the expiry  *)
(* of asynchronous validators.                                             *)
(***************************************************************************)
\* The catch branch of executeValidator for every validator of the call
\* that is still pending when the deadline passes: the timers were armed in
\* one stretch with one delay, so they expire together.
RECURSIVE ExpireEach_NoRecord(_, _, _)
ExpireEach_NoRecord(s, id, i) ==
    IF i > Len(SchemaValidators(s.calls[id].field)) THEN s
    ELSE IF i \in s.calls[id].pend
         THEN ExpireEach_NoRecord(
                  [s EXCEPT !.calls[id].pend = @ \ {i}, !.calls[id].ok = FALSE],
                  id, i + 1)
         ELSE ExpireEach_NoRecord(s, id, i + 1)

RECURSIVE ExpireEach(_, _, _)
ExpireEach(s, id, i) ==
    IF i > Len(SchemaValidators(s.calls[id].field)) THEN s
    ELSE IF i \in s.calls[id].pend
         THEN LET f  == s.calls[id].field
                  s1 == HandleExceptionError(s, f, <<"Validation timeout", f>>, id)
              IN  ExpireEach([s1 EXCEPT !.calls[id].pend = @ \ {i},
                                        !.calls[id].ok = FALSE,
                                        !.calls[id].nerr = @ + 1],
                             id, i + 1)
         ELSE ExpireEach(s, id, i + 1)

ExpireValidators(s, id) ==
    [ExpireEach(s, id, 1) EXCEPT
        !.calls[id].expired = TRUE,
        !.calls[id].next = IF options.failFast
                           THEN Len(SchemaValidators(s.calls[id].field)) + 1
                           ELSE @]

\* asyncValidationTimeout passes with validators of the call unsettled.
TimeoutValidators(id) ==
    /\ id \in DOMAIN calls
    /\ calls[id].pend # {}
    /\ ~Runnable
    /\ LET s == ExpireValidators(Engine, id)
       IN  /\ Commit(s)
           /\ Observe("timeout", id, calls[id].batch, calls[id].field, s, FALSE)
    /\ UNCHANGED <<batches, ops, settle, disposed>>
    /\ turn' = "engine"

\* failFast: the loop of validateField resumes after a valid result and
\* invokes the next validator.
NextValidator(id) ==
    /\ id \in DOMAIN calls
    /\ options.failFast
    /\ ~calls[id].done
    /\ calls[id].pend = {}
    /\ calls[id].next <= Len(SchemaValidators(calls[id].field))
    /\ LET s == InvokeValidator(Engine, id)
       IN  /\ Commit(s)
           /\ Observe("invoke", id, calls[id].batch, calls[id].field, s, FALSE)
    /\ UNCHANGED <<batches, ops, settle, disposed>>
    /\ UNCHANGED turn

InitValid ==
    /\ schema = "form"
    /\ options \in [debounce : {0}, failFast : BOOLEAN]
    /\ Constructed

NextValid ==
    \/ \E f \in Fields : \E v \in Inputs(f) : CallerTurn /\ SetField(f, v)
    \/ CallerTurn /\ ValidateAll
    \/ \E id \in DOMAIN calls : \E i \in calls[id].pend :
           CallerTurn /\ ResolveValidator(id, i)
    \/ \E id \in DOMAIN calls : TimeoutValidators(id)
    \/ \E id \in DOMAIN calls : NextValidator(id)
    \/ \E id \in DOMAIN calls : FinishUpdate(id)
    \/ \E id \in DOMAIN calls : FinishValidateField(id)
    \/ \E b \in DOMAIN batches : FinishValidateAll(b)

SpecValid == InitValid /\ [][NextValid]_vars

\* Aggregate mode alone, on the form and on the field with several
\* synchronous validators.
InitAgg ==
    /\ schema \in {"form", "multi"}
    /\ options = [debounce |-> 0, failFast |-> FALSE]
    /\ Constructed

\* The steps of aggregate mode: every validator was invoked at the entry, so
\* the loop of validateField never takes a further step.
NextAgg ==
    \/ \E f \in Fields : \E v \in Inputs(f) : CallerTurn /\ SetField(f, v)
    \/ CallerTurn /\ ValidateAll
    \/ \E id \in DOMAIN calls : \E i \in calls[id].pend :
           CallerTurn /\ ResolveValidator(id, i)
    \/ \E id \in DOMAIN calls : TimeoutValidators(id)
    \/ \E id \in DOMAIN calls : FinishUpdate(id)
    \/ \E id \in DOMAIN calls : FinishValidateField(id)
    \/ \E b \in DOMAIN batches : FinishValidateAll(b)

SpecAgg == InitAgg /\ [][NextAgg]_vars

(***************************************************************************)
(* The event bus: subscribers that return, throw or emit again.            *)
(***************************************************************************)
\* on(event, callback) / once(event, callback).
Subscribe(e, does, once) ==
    /\ Len(listeners) < MaxSubs
    /\ LET l == Len(listeners) + 1
           s == [Engine EXCEPT
                    !.listeners = Append(@, [event |-> e, once |-> once,
                                             does |-> does, n |-> 0]),
                    !.events[e] = Append(@, l)]
       IN  /\ Commit(s)
           /\ Observe(IF once THEN "once" ELSE "on", l, 0, e, s, FALSE)
    /\ UNCHANGED <<batches, ops, settle, disposed>>
    /\ turn' = "caller"

CallOn(e, does) == Subscribe(e, does, FALSE)

\* once is a method of the EventEmitter only.
CallOnce(e, does) == e = "ping" /\ Subscribe(e, does, TRUE)

\* off(event, callback) with a callback given to on: a once wrapper is not
\* known to the caller.
CallOff(l) ==
    /\ l \in DOMAIN listeners
    /\ ~listeners[l].once
    /\ \E k \in 1..Len(events[listeners[l].event]) : events[listeners[l].event][k] = l
    /\ LET s == Off(Engine, listeners[l].event, l)
       IN  /\ Commit(s)
           /\ Observe("off", l, 0, listeners[l].event, s, FALSE)
    /\ UNCHANGED <<batches, ops, settle, disposed>>
    /\ turn' = "caller"

\* emit(event, data) called on the EventEmitter.
CallEmit(e) ==
    /\ ops < MaxOps
    /\ e = "ping"
    /\ LET s == Emit(Engine, e)
       IN  /\ Commit(s)
           /\ Observe("emit", 0, 0, e, s, FALSE)
    /\ ops' = ops + 1
    /\ UNCHANGED <<batches, settle, disposed>>
    /\ turn' = "caller"

InitBus ==
    /\ schema = "chain"
    /\ options = [debounce |-> 0, failFast |-> FALSE]
    /\ Constructed

NextBus ==
    \/ \E e \in EventNames : \E d \in Behaviours(e) : CallerTurn /\ CallOn(e, d)
    \/ \E e \in EventNames : \E d \in Behaviours(e) : CallerTurn /\ CallOnce(e, d)
    \/ \E l \in DOMAIN listeners : CallerTurn /\ CallOff(l)
    \/ \E e \in EventNames : CallerTurn /\ CallEmit(e)
    \/ \E f \in Fields : \E v \in Inputs(f) : CallerTurn /\ SetField(f, v)
    \/ \E id \in DOMAIN calls : FinishUpdate(id)

SpecBus == InitBus /\ [][NextBus]_vars

(***************************************************************************)
(* The error classifier with subscribers that return or throw.             *)
(***************************************************************************)
\* onError(type, listener).
CallOnError(type, does) ==
    /\ Len(listeners) < MaxSubs
    /\ LET l == Len(listeners) + 1
           s == [Engine EXCEPT
                    !.listeners = Append(@, [event |-> type, once |-> FALSE,
                                             does |-> does, n |-> 0]),
                    !.errorListeners[type] = Append(@, l)]
       IN  /\ Commit(s)
           /\ Observe("onError", l, 0, type, s, FALSE)
    /\ UNCHANGED <<batches, ops, settle, disposed>>
    /\ turn' = "caller"

\* offError(type, listener).
CallOffError(l) ==
    /\ l \in DOMAIN listeners
    /\ listeners[l].event \in ErrorTypes
    /\ \E k \in 1..Len(errorListeners[listeners[l].event]) :
           errorListeners[listeners[l].event][k] = l
    /\ LET s == [Engine EXCEPT !.errorListeners[listeners[l].event] =
                                   SelectSeq(@, LAMBDA x : x # l)]
       IN  /\ Commit(s)
           /\ Observe("offError", l, 0, listeners[l].event, s, FALSE)
    /\ UNCHANGED <<batches, ops, settle, disposed>>
    /\ turn' = "caller"

\* triggerError(error) called on the ErrorHandler with a record of the kind.
CallTriggerError(type) ==
    /\ ops < MaxOps
    /\ LET s == TriggerError(Engine, type)
       IN  /\ Commit(s)
           /\ Observe("triggerError", 0, 0, type, s, FALSE)
    /\ ops' = ops + 1
    /\ UNCHANGED <<batches, settle, disposed>>
    /\ turn' = "caller"

InitErr ==
    /\ schema = "chain"
    /\ options = [debounce |-> 0, failFast |-> FALSE]
    /\ Constructed

NextErr ==
    \/ \E k \in ErrorTypes : \E d \in Behaviours(k) : CallOnError(k, d)
    \/ \E l \in DOMAIN listeners : CallOffError(l)
    \/ \E k \in ErrorTypes : CallTriggerError(k)
    \/ \E f \in Names \ Fields : \E v \in {1} : SetUnknownField(f, v)

SpecErr == InitErr /\ [][NextErr]_vars

(***************************************************************************)
(* Properties.  A step is identified by what it leaves in last; unprimed   *)
(* variables are the state before the step, primed ones the state after.   *)
(***************************************************************************)
\* The candidate the schema prescribes for an input: its transform applied.
PostTransform(f, v) == IF HasTransform(f) THEN SchemaTransform(f, v) ELSE v

Count(x, seq) == Cardinality({i \in 1..Len(seq) : seq[i] = x})

\* The step is the return of the updateField call last'.id.
IsFinish == last'.op = "finish" /\ last'.id \in DOMAIN calls

\* C1: setField on an undeclared name resolves to false, dispatches exactly
\* one FIELD_NOT_FOUND error, forwarded as one field:not-found event, and
\* leaves data, dirty, errors and every request ticket unchanged.
C1_UnknownFieldRejected ==
    [][last'.op = "notfound" =>
          /\ last'.ret = FALSE
          /\ last'.obs.notFound = 1
          /\ last'.obs.nfEvents = 1
          /\ UNCHANGED <<data, dirty, errors, requestIds, calls>>]_vars

\* An undeclared name was set while a set of a was in flight.
C1_Witness ==
    /\ last.op = "notfound"
    /\ last.obs.nfEvents = 1
    /\ requestIds["a"] > 0
    /\ \E id \in DOMAIN calls : ~calls[id].done

\* C2: a setField call that completes with verdict true as the latest call
\* of its field leaves data[field] equal to the post-transform candidate.
C2_AcceptedValueCommitted ==
    [][(IsFinish /\ requestIds[last'.field] = last'.id /\ calls[last'.id].ok) =>
          data'[last'.field] = PostTransform(last'.field, calls[last'.id].input)]_vars

\* setField(a, 4) was accepted and committed the clamped value 3.
C2_Witness ==
    /\ last.op = "finish"
    /\ last.ret
    /\ last.field = "a"
    /\ calls[last.id].input = 4
    /\ data["a"] = 3

\* C3: a setField call that completes with verdict true as the latest call
\* of its field leaves no dirty entry for the field.
C3_AcceptedClearsDirty ==
    [][(IsFinish /\ requestIds[last'.field] = last'.id /\ calls[last'.id].ok) =>
          dirty'[last'.field] = Undef]_vars

\* C4: a setField call that completes with verdict false as the latest call
\* of its field leaves data[field] as it was, dirty[field] equal to the
\* post-transform candidate and errors[field] non-empty, emits no
\* field:change and triggers no reaction.
C4_RejectedValueShelved ==
    [][(IsFinish /\ requestIds[last'.field] = last'.id /\ ~calls[last'.id].ok) =>
          /\ data'[last'.field] = data[last'.field]
          /\ dirty'[last'.field] = PostTransform(last'.field, calls[last'.id].input)
          /\ errors'[last'.field] # << >>
          /\ last'.obs.changes = << >>
          /\ last'.obs.runs = << >>]_vars

\* C5: a setField call superseded by a later call on its field never writes
\* data or dirty, neither while its validators settle nor when it returns;
\* the state is decided by the latest call alone: accepted, data[field] is
\* its candidate; rejected, data[field] is kept and dirty[field] is its
\* candidate.
C5_SupersededNeverWrites ==
    [][/\ (/\ last'.op \in {"resolve", "finish"}
           /\ last'.id \in DOMAIN calls
           /\ calls[last'.id].kind = "set"
           /\ requestIds[last'.field] # last'.id)
          => (UNCHANGED <<data, dirty>> /\ last'.obs.changes = << >>
              /\ last'.obs.runs = << >>)
       /\ (IsFinish /\ requestIds[last'.field] = last'.id)
          => IF calls[last'.id].ok
             THEN data'[last'.field] = calls[last'.id].cand
             ELSE /\ data'[last'.field] = data[last'.field]
                  /\ dirty'[last'.field] = calls[last'.id].cand]_vars

\* setField(a, 4) then setField(a, 1): the first call, valid on its own,
\* returns after the second one has and data.a is still the second's 1.
C5_Witness ==
    /\ last.op = "finish"
    /\ last.id = 1
    /\ 2 \in DOMAIN calls
    /\ calls[1].field = "a" /\ calls[1].cand = 3 /\ calls[1].ok
    /\ calls[2].field = "a" /\ calls[2].cand = 1 /\ calls[2].done /\ calls[2].ret
    /\ data["a"] = 1
    /\ dirty["a"] = Undef

\* C6: once the calls on a field have completed, errors[field] holds no
\* record produced by a validator of a superseded setField call.
C6_SupersededLeavesNoErrors ==
    \A id \in DOMAIN calls :
        (/\ calls[id].kind = "set"
         /\ calls[id].superseded
         /\ \A j \in DOMAIN calls : calls[j].field = calls[id].field => calls[j].done)
        => \A k \in 1..Len(errors[calls[id].field]) :
               errors[calls[id].field][k].by # id

\* C7: a superseded setField call resolves to the verdict of its own
\* validation.
C7_SupersededReturnsOwnVerdict ==
    \A id \in DOMAIN calls :
        (calls[id].kind = "set" /\ calls[id].done /\ calls[id].superseded)
        => calls[id].ret = calls[id].ok

\* C8: a setField whose post-transform candidate equals data[field] and
\* passes validation emits no field:change, runs and schedules no reaction,
\* and leaves data unchanged.
C8_NoOpOnEquality ==
    [][(/\ IsFinish
        /\ calls[last'.id].ok
        /\ DeepEqual(data[last'.field],
                     PostTransform(last'.field, calls[last'.id].input))) =>
          /\ last'.obs.changes = << >>
          /\ last'.obs.runs = << >>
          /\ nextId' = nextId
          /\ data' = data]_vars

\* setField(a, v) was accepted as the latest call with v already in data.a:
\* nothing was emitted although rc depends on a.
C8_Witness ==
    /\ last.op = "finish"
    /\ last.ret
    /\ last.field = "a"
    /\ last.obs.changes = << >>
    /\ data["a"] = calls[last.id].cand

\* C9: when setFields resumes, every reaction with a dependency among the
\* input keys runs its computed() exactly once, no other reaction runs, and
\* the value it hands to its owner is computed from the data the batch left.
C9_BatchRunsEachReactionOnce ==
    [][last'.op = "finishSetFields" =>
          \A r \in Reactions :
              IF Range(Deps(r)) \cap Range(batches[last'.batch].keys) # {}
              THEN /\ Count(r, last'.obs.runs) = 1
                   /\ \E id \in DOMAIN calls' \ DOMAIN calls :
                         /\ calls'[id].field = Owner(r)
                         /\ calls'[id].input =
                               Compute(r, [i \in 1..Len(Deps(r)) |-> data'[Deps(r)[i]]])
              ELSE Count(r, last'.obs.runs) = 0]_vars

\* setFields({a: 4, b: 1}) resumed: rc ran once and computes c from 3 and 1.
C9_Witness ==
    /\ last.op = "finishSetFields"
    /\ {"a", "b"} \subseteq Range(batches[last.batch].keys)
    /\ batches[last.batch].ret
    /\ last.obs.runs = <<"rc">>
    /\ data["a"] = 3 /\ data["b"] = 1
    /\ calls[nextId - 1].field = "c" /\ calls[nextId - 1].input = 4

\* C10: setFields resolves to the conjunction of the verdicts of its
\* entries (false for an undeclared name), and every entry that is valid and
\* the latest of its field is committed whatever the other entries did.
C10_BatchConjunction ==
    [][/\ last'.op = "finishSetFields" =>
            last'.ret = (/\ Range(batches[last'.batch].keys) \subseteq Fields
                         /\ \A id \in Entries(calls, last'.batch) : calls[id].ok)
       /\ (IsFinish /\ calls[last'.id].batch > 0
             /\ requestIds[last'.field] = last'.id /\ calls[last'.id].ok)
            => data'[last'.field] = calls[last'.id].cand]_vars

\* The calls made by reactions: they carry a propagation stack.
ReactionCalls == {id \in DOMAIN calls : calls[id].stack # << >>}

\* settled() has resolved, it was called when every call of the caller had
\* returned, and nothing was issued since.
SettledQuietly ==
    /\ settle.state = "resolved"
    /\ settle.quiet
    /\ ops = settle.at
    /\ ~disposed

\* C11: on the chain a -> b -> c, once a set of a has committed and
\* settled() has resolved, b is double's computed(a) and c is succ's
\* computed(b), with and without debounce.
C11_ChainSettled ==
    (/\ schema = "chain"
     /\ SettledQuietly
     /\ data["a"] # SchemaDefault("a"))
    => /\ data["b"] = Compute("double", <<data["a"]>>)
       /\ data["c"] = Compute("succ", <<data["b"]>>)

\* setField(a, 2) and then settled(), debounced: b = 4 and c = 5.
C11_Witness ==
    /\ schema = "chain"
    /\ options.debounce > 0
    /\ SettledQuietly
    /\ data["a"] = 2 /\ data["b"] = 4 /\ data["c"] = 5

\* C12: on a cyclic schema the reactions run by the caller's operations
\* are bounded, the propagation stack never outgrows the schema, and when a
\* reaction's commit changes a field on which a reaction depends whose owner
\* is already on the stack, a CIRCULAR_DEPENDENCY error is dispatched and
\* that reaction is neither run nor scheduled.
C12_CycleLiveness ==
    /\ [](schema \in {"cycle", "self"} =>
            /\ Cardinality(ReactionCalls) <= ops * Len(ReactionOrder)
            /\ \A id \in DOMAIN calls : Len(calls[id].stack) <= Cardinality(Fields))
    /\ [][\A r \in Reactions :
             (/\ schema \in {"cycle", "self"}
              /\ IsFinish
              /\ ~disposed
              /\ data'[last'.field] # data[last'.field]
              /\ last'.field \in Range(Deps(r))
              /\ Owner(r) \in Range(calls[last'.id].stack))
             => /\ last'.obs.circ >= 1
                /\ r \notin Range(last'.obs.runs)
                /\ Collapsed(timers', r) = Collapsed(timers, r)]_vars

\* setField(x, 1) on the cycle: y became 2 and the way back to x was
\* refused with one CIRCULAR_DEPENDENCY error.
C12_Witness ==
    /\ schema = "cycle"
    /\ last.op = "finish"
    /\ last.field = "y"
    /\ last.obs.circ = 1
    /\ data["x"] = 1 /\ data["y"] = 2

\* C13: with debounceReactions > 0 a reaction has at most one pending
\* timer; a new trigger cancels the pending one; computed() runs only when
\* a timer fires, once, on the dependency values of that moment; and an
\* owner that only reactions write keeps its value while the timer is
\* pending and no earlier write of it is in flight.
C13_DebouncedCollapse ==
    /\ [](options.debounce > 0 =>
            \A r \in Reactions :
                Cardinality({i \in 1..Len(timers) : timers[i].reaction = r}) <= 1)
    /\ [][options.debounce > 0 =>
            /\ \A r \in Reactions :
                  /\ (HasTimer(timers, r) /\ Collapsed(timers', r) > Collapsed(timers, r))
                        => last'.obs.cleared >= 1
                  /\ (/\ HasTimer(timers, r) /\ HasTimer(timers', r)
                      /\ Inputs(Owner(r)) = {}
                      /\ \A id \in DOMAIN calls :
                            calls[id].field = Owner(r) => calls[id].done)
                        => data'[Owner(r)] = data[Owner(r)]
            /\ last'.op # "fire" =>
                  /\ last'.obs.runs = << >>
                  /\ ReactionCalls' = ReactionCalls
            /\ last'.op = "fire" =>
                  LET t == Head(timers)
                  IN  /\ last'.obs.runs = <<t.reaction>>
                      /\ ~HasTimer(timers', t.reaction)
                      /\ calls'[nextId].field = Owner(t.reaction)
                      /\ calls'[nextId].input =
                            Compute(t.reaction,
                                    [i \in 1..Len(Deps(t.reaction)) |->
                                        data[Deps(t.reaction)[i]]])]_vars

\* setField(a, 1) and setField(a, 2) both committed before the timer of
\* double fired: it fired once, for two triggers, and computed 4 from a = 2.
C13_Witness ==
    /\ schema = "chain"
    /\ last.op = "fire"
    /\ last.obs.collapsed = 2
    /\ last.obs.runs = <<"double">>
    /\ data["a"] = 2
    /\ calls[last.id].input = 4

\* C14: when settled() has resolved no debounce timer is pending and no
\* call made by a reaction is still in flight.
C14_SettleBarrier ==
    SettledQuietly =>
        /\ timers = << >>
        /\ \A id \in ReactionCalls : calls[id].done

\* C15: dispose() cancels every pending timer and leaves none, and from
\* then on no computed() runs.
C15_DisposeFinality ==
    /\ [](disposed => timers = << >>)
    /\ [][/\ last'.op = "dispose" => last'.obs.cleared = Len(timers)
          /\ disposed' => last'.obs.runs = << >>]_vars

\* dispose() was called with the timer of a debounced reaction pending.
C15_Witness ==
    /\ last.op = "dispose"
    /\ last.obs.cleared = 1
    /\ disposed
    /\ \E id \in DOMAIN calls : calls[id].done /\ calls[id].ret


\* The record a timed-out validator of call id leaves in a list of errors.
TimeoutRecorded(errs, id) ==
    \E k \in 1..Len(errs) :
        /\ errs[k].rule = "validation_error"
        /\ errs[k].by = id
        /\ \E j \in 1..Len(errs[k].msg) : errs[k].msg[j] = "Validation timeout"

\* C16: when the asynchronous validators of a call are still unsettled at
\* the timeout, the call is at its return with a 'validation_error' record
\* whose message contains 'Validation timeout' in errors[field]; a setField
\* that is the latest call of its field then returns false, leaves data as
\* it was, sets dirty[field] to the candidate and still has the record.
C16_TimeoutCompletes ==
    /\ [](last.op = "timeout" =>
            /\ calls[last.id].pend = {}
            /\ calls[last.id].next > Len(SchemaValidators(last.field))
            /\ ~calls[last.id].ok
            /\ ~calls[last.id].done
            /\ TimeoutRecorded(errors[last.field], last.id))
    /\ [][(IsFinish /\ calls[last'.id].expired
                    /\ requestIds[last'.field] = last'.id) =>
            /\ calls'[last'.id].done
            /\ ~last'.ret
            /\ data' = data
            /\ dirty'[last'.field] = calls[last'.id].cand
            /\ TimeoutRecorded(errors'[last'.field], last'.id)]_vars

\* setField(b, 1), whose every validator would accept, returned false after
\* the timeout and left 1 in dirty.
C16_Witness ==
    /\ last.op = "finish"
    /\ last.field = "b"
    /\ calls[last.id].expired
    /\ calls[last.id].input = 1
    /\ ~calls[last.id].superseded
    /\ ~last.ret
    /\ dirty["b"] = 1
    /\ data["b"] = SchemaDefault("b")


\* The records of call id in a list of errors.
RecordsBy(errs, id) == Cardinality({k \in 1..Len(errs) : errs[k].by = id})

\* C17: with failFast the validators of a call are invoked in declaration
\* order, the next one only when the previous one has finished valid; after
\* the first invalid, rejected or timed-out validator none is invoked and
\* the call has added exactly one record to errors[field].
C17_FailFast ==
    /\ [](options.failFast =>
            \A id \in DOMAIN calls :
                LET c == calls[id]
                    n == Len(c.invoked)
                IN  /\ c.invoked = [k \in 1..n |-> k]
                    /\ c.pend \subseteq (IF n = 0 THEN {} ELSE {n})
                    /\ c.nerr = (IF c.ok THEN 0 ELSE 1)
                    /\ RecordsBy(errors[c.field], id) <= c.nerr
                    /\ ~c.ok => /\ c.pend = {}
                                /\ c.next > Len(SchemaValidators(c.field)))
    /\ [][options.failFast =>
            \A id \in DOMAIN calls' :
                IF id \in DOMAIN calls
                THEN /\ Len(calls'[id].invoked) > Len(calls[id].invoked) =>
                            /\ calls[id].pend = {}
                            /\ calls[id].ok
                            /\ Len(calls'[id].invoked) = Len(calls[id].invoked) + 1
                     /\ (calls[id].ok /\ ~calls'[id].ok) =>
                            /\ RecordsBy(errors'[calls[id].field], id) = 1
                            /\ Len(errors'[calls[id].field]) =
                                   Len(errors[calls[id].field]) + 1
                     /\ ~calls[id].ok => calls'[id].invoked = calls[id].invoked
                ELSE /\ Len(calls'[id].invoked) <= 1
                     /\ RecordsBy(errors'[calls'[id].field], id) =
                            (IF calls'[id].ok THEN 0 ELSE 1)]_vars

\* setField(b, 0) with failFast: "remote" accepted, "required" rejected and
\* "slow" was never invoked; the call left one record.
C17_Witness ==
    /\ options.failFast
    /\ last.op = "finish"
    /\ last.field = "b"
    /\ calls[last.id].input = 0
    /\ calls[last.id].invoked = <<1, 2>>
    /\ ~calls[last.id].expired
    /\ ~last.ret
    /\ Len(errors["b"]) = 1
    /\ errors["b"][1].rule = "required"


\* Every validator of the field accepts the value.
Accepted(f, v) ==
    \A i \in 1..Len(SchemaValidators(f)) : v \in SchemaValidators(f)[i].accepts

\* C18: validateAll starts one validation per declared field, of dirty[f]
\* when there is one and of data[f] otherwise.  A validation that ends valid
\* removes f from dirty and, when the candidate differs from data[f], commits
\* it with one field:change and runs the reactions that depend on f; one
\* that ends invalid sets dirty[f] to the candidate and leaves data alone.
\* validateAll returns the conjunction of the verdicts.
C18_ValidateAll ==
    /\ [][last'.op = "validateAll" =>
            \A f \in Fields :
                \E id \in DOMAIN calls' \ DOMAIN calls :
                    /\ calls'[id].kind = "va"
                    /\ calls'[id].field = f
                    /\ calls'[id].batch = last'.batch
                    /\ calls'[id].cand =
                           (IF dirty[f] # Undef THEN dirty[f] ELSE data[f])
                    /\ \A id2 \in DOMAIN calls' \ DOMAIN calls :
                           calls'[id2].field = f => id2 = id]_vars
    /\ [][last'.op = "finishValidate" =>
            LET c == calls[last'.id]
                f == c.field
            IN  /\ ~c.expired => (c.ok <=> Accepted(f, c.cand))
                /\ last'.ret = c.ok
                /\ c.ok /\ DeepEqual(data[f], c.cand) =>
                       /\ dirty'[f] = Undef
                       /\ data' = data
                       /\ last'.obs.changes = << >>
                       /\ last'.obs.runs = << >>
                /\ c.ok /\ ~DeepEqual(data[f], c.cand) =>
                       /\ dirty'[f] = Undef
                       /\ data' = [data EXCEPT ![f] = c.cand]
                       /\ last'.obs.changes = <<f>>
                       /\ \A r \in Reactions :
                              (\E k \in 1..Len(Deps(r)) : Deps(r)[k] = f) <=>
                                  Count(r, last'.obs.runs) = 1
                /\ ~c.ok =>
                       /\ dirty'[f] = c.cand
                       /\ data' = data
                       /\ last'.obs.changes = << >>
                       /\ last'.obs.runs = << >>]_vars
    /\ [][last'.op = "finishValidateAll" =>
            (last'.ret <=>
                 \A f \in Fields :
                     \E id \in Entries(calls, last'.batch) :
                         calls[id].field = f /\ calls[id].ok)]_vars

\* validateAll retried the dirty value 1 of b, which had timed out: it was
\* accepted, committed with a field:change, and echo ran.
C18_Witness ==
    /\ last.op = "finishValidate"
    /\ last.ret
    /\ last.field = "b"
    /\ calls[last.id].cand = 1
    /\ data["b"] = 1
    /\ dirty["b"] = Undef
    /\ last.obs.changes = <<"b">>
    /\ last.obs.runs = <<"echo">>
    /\ \E id \in DOMAIN calls : calls[id].kind = "set" /\ calls[id].expired


\* The reactions that depend on field f.
Dependants(f) == {r \in Reactions : \E k \in 1..Len(Deps(r)) : Deps(r)[k] = f}

\* C19: an emission invokes every listener registered for the event, also
\* those subscribed after one that throws, and no exception leaves emit; a
\* setField that commits a changed value as the latest call of its field
\* therefore returns true, is not rejected, and runs the reactions that
\* depend on the field.
C19_EmitIsolation ==
    /\ [][last'.op = "emit" =>
            /\ ~last'.obs.thrown
            /\ \A k \in 1..Len(events[last'.field]) :
                   Count(events[last'.field][k], last'.obs.heard) >= 1]_vars
    /\ [][(IsFinish /\ requestIds[last'.field] = last'.id
                    /\ calls[last'.id].ok
                    /\ ~DeepEqual(data[last'.field], calls[last'.id].cand)) =>
            /\ ~calls'[last'.id].rejected
            /\ last'.ret
            /\ \A k \in 1..Len(events["field:change"]) :
                   Count(events["field:change"][k], last'.obs.heard) >= 1
            /\ \A r \in Dependants(last'.field) :
                   Count(r, last'.obs.runs) = 1]_vars

\* C20: a listener registered with once is never invoked a second time and
\* is no longer registered once it has been invoked.
C20_OnceExactlyOnce ==
    \A l \in DOMAIN listeners :
        listeners[l].once =>
            /\ listeners[l].n <= 1
            /\ listeners[l].n >= 1 =>
                   \A k \in 1..Len(events[listeners[l].event]) :
                       events[listeners[l].event][k] # l


NewCalls == DOMAIN calls' \ DOMAIN calls

C22_FailureIsolation ==
    [][last'.obs.reactErr > 0 =>
         /\ last'.obs.reactErr = 1
         /\ Len(errors'["__reactions"]) = Len(errors["__reactions"]) + 1
         /\ errors'["__reactions"][Len(errors'["__reactions"])].rule = "reaction_error"
         /\ errors'["__reactions"][Len(errors'["__reactions"])].by = "b"
         /\ data'["b"] = data["b"]
         /\ \A id \in NewCalls : calls'[id].field # "b"
         /\ last'.op = "finish" =>
                /\ last'.obs.runs = ReactionsToTrigger(<<last'.field>>)
                /\ \E id \in NewCalls : calls'[id].field = "c"
                /\ data'[last'.field] = calls[last'.id].cand
                /\ last'.ret = calls[last'.id].ok
                /\ calls'[last'.id].done /\ ~calls'[last'.id].rejected
         /\ last'.op = "fire" => timers' = Tail(timers)]_vars

C22_Witness ==
    /\ last.op = "finish"
    /\ last.field = "a"
    /\ last.ret
    /\ last.obs.reactErr = 1
    /\ last.obs.runs = <<"boom", "next">>
    /\ data["a"] = 2
    /\ Len(errors["__reactions"]) = 1

(***************************************************************************)
(* C23  Dirty-map invariant.  Once every call has completed, a field that  *)
(* is a key of dirty is one whose most recent attempt (the latest call on  *)
(* the field) failed validation.                                           *)
(***************************************************************************)
CallsOn(f) == {id \in DOMAIN calls : calls[id].field = f}

C23_DirtyInvariant ==
    (\A id \in DOMAIN calls : calls[id].done) =>
        \A f \in Fields :
            dirty[f] # Undef =>
                \E id \in CallsOn(f) :
                    /\ \A j \in CallsOn(f) : j <= id
                    /\ ~calls[id].ok

(***************************************************************************)
(* C24  Cycle refusal on x <-> y.  The only reaction calls are commits of  *)
(* y started by a change of x, at most one per accepted setField of x.     *)
(* The commit of y that changes y (the second hop) dispatches exactly one  *)
(* CIRCULAR_DEPENDENCY error: the reaction of x is not run, not scheduled, *)
(* and x is not written.  No other step dispatches that error, and the     *)
(* originating setField resolves to true.                                  *)
(***************************************************************************)
C24_CycleRefusal ==
    /\ [](schema = "cycle" =>
            /\ \A id \in ReactionCalls :
                   calls[id].field = "y" /\ calls[id].stack = <<"x">>
            /\ Cardinality(ReactionCalls) <=
                   Cardinality({id \in DOMAIN calls :
                                   calls[id].stack = << >> /\ calls[id].done /\ calls[id].ok}))
    /\ [][schema = "cycle" =>
            /\ last'.obs.circ > 0 =>
                   /\ last'.obs.circ = 1
                   /\ IsFinish
                   /\ last'.field = "y"
                   /\ last'.obs.runs = << >>
                   /\ NewCalls = {}
                   /\ timers' = timers
                   /\ data'["x"] = data["x"]
            /\ (IsFinish /\ last'.field = "y" /\ data'["y"] # data["y"] /\ ~disposed)
                   => last'.obs.circ = 1
            /\ (IsFinish /\ calls[last'.id].stack = << >>
                   /\ requestIds[last'.field] = last'.id /\ calls[last'.id].ok)
                   => /\ last'.ret
                      /\ last'.obs.circ = 0
                      /\ (data'["x"] # data["x"] /\ options.debounce = 0 /\ ~disposed)
                            => last'.obs.runs = <<"yr">>]_vars

\* Immediate mode: setField(x, 1) returned true, y's reaction ran once and
\* its commit of y = 2 was refused the way back to x.
C24_Witness ==
    /\ schema = "cycle"
    /\ options.debounce = 0
    /\ last.op = "finish"
    /\ last.field = "y"
    /\ last.obs.circ = 1
    /\ Cardinality(ReactionCalls) = 1
    /\ \E id \in DOMAIN calls : calls[id].stack = << >> /\ calls[id].field = "x" /\ calls[id].ret
    /\ data["x"] = 1 /\ data["y"] = 2

(***************************************************************************)
(* C25  Compute, commit, action.  Whenever the action callback of a        *)
(* reaction runs, its owner field (which has no validators, so the commit  *)
(* is accepted) already holds the computed value.                          *)
(***************************************************************************)
C25_ActionAfterCommit ==
    \A i \in 1..Len(last.obs.actions) :
        LET act == last.obs.actions[i]
        IN  SchemaValidators(act.owner) = << >> => act.seen = act.computed

(***************************************************************************)
(* C26  A failing commit is a reaction failure.  When the update a reaction*)
(* starts on its owner ends with an exception (the owner's transform       *)
(* throws), a REACTION error is dispatched and a record is appended under  *)
(* errors['__reactions']; no promise is left rejected with nobody          *)
(* handling it.                                                            *)
(***************************************************************************)
C26_CommitFailureRecorded ==
    [][/\ last'.obs.unhandled = 0
       /\ \A id \in NewCalls :
              (calls'[id].stack # << >> /\ calls'[id].rejected) =>
                  /\ last'.obs.reactErr >= 1
                  /\ Len(errors'["__reactions"]) > Len(errors["__reactions"])]_vars

(***************************************************************************)
(* C27  Missing dependency.  In a step that executes reactions, one        *)
(* DEPENDENCY_ERROR is dispatched per undefined dependency of each of      *)
(* them; every reaction whose compute does not throw starts the commit of  *)
(* compute(values), undefined slots included, to its owner; and records    *)
(* are added under errors['__reactions'] only for computes that throw.     *)
(***************************************************************************)
ValuesNow(r) == [i \in 1..Len(Deps(r)) |-> data'[Deps(r)[i]]]

Missing(r) == Cardinality({i \in 1..Len(Deps(r)) : data'[Deps(r)[i]] = Undef})

RECURSIVE MissingIn(_)
MissingIn(runs) ==
    IF runs = << >> THEN 0 ELSE Missing(Head(runs)) + MissingIn(Tail(runs))

Throwers(runs) == Cardinality({i \in 1..Len(runs) : ComputeThrows(runs[i], ValuesNow(runs[i]))})

C27_MissingDependency ==
    [][last'.obs.runs # << >> =>
         /\ last'.obs.depErr = MissingIn(last'.obs.runs)
         /\ \A r \in Range(last'.obs.runs) :
                ~ComputeThrows(r, ValuesNow(r)) =>
                    \E id \in NewCalls :
                        /\ calls'[id].field = Owner(r)
                        /\ calls'[id].stack # << >>
                        /\ calls'[id].input = Compute(r, ValuesNow(r))
         /\ last'.obs.reactErr = Throwers(last'.obs.runs)
         /\ Len(errors'["__reactions"]) =
                Len(errors["__reactions"]) + Throwers(last'.obs.runs)]_vars

\* u was never set: b's reaction computed a + undefined as a, reported the
\* missing u, and its result 1 is committed to b.
C27_Witness ==
    /\ schema = "fan"
    /\ last.op = "finish"
    /\ last.field = "b"
    /\ data["u"] = Undef
    /\ data["a"] = 1
    /\ data["b"] = 1
    /\ errors["__reactions"] = << >>

(***************************************************************************)
(* C28  Several reactions on one owner.  A committed change of a field     *)
(* executes, of the reactions of every owner, exactly those whose          *)
(* dependency list contains the field, each once: in immediate mode they   *)
(* are the reactions run by the committing step; in debounced mode exactly *)
(* they get a timer, the timers of the others are left as they were, and a *)
(* timer that fires runs its one reaction.                                 *)
(***************************************************************************)
TimersOf(ts, r) == SelectSeq(ts, LAMBDA x : x.reaction = r)

C28_OnlyDependants ==
    [][(schema = "fan" /\ IsFinish) =>
          LET C       == last'.field
              changed == data'[C] # data[C]
          IN  \A r \in Reactions :
                 /\ options.debounce = 0 =>
                        Count(r, last'.obs.runs) =
                            IF changed /\ C \in Range(Deps(r)) THEN 1 ELSE 0
                 /\ options.debounce > 0 =>
                        /\ last'.obs.runs = << >>
                        /\ IF changed /\ C \in Range(Deps(r))
                           THEN Len(TimersOf(timers', r)) = 1
                           ELSE TimersOf(timers', r) = TimersOf(timers, r)]_vars
    /\ [][(schema = "fan" /\ last'.op = "fire") =>
            /\ last'.obs.runs = <<Head(timers).reaction>>
            /\ timers' = Tail(timers)]_vars

\* A change of u ran, of the two reactions of c, only the one on u: c is
\* u + 5 although a is 0.
C28_Witness ==
    /\ schema = "fan"
    /\ data["u"] = 1
    /\ data["c"] = 6
    /\ \A id \in DOMAIN calls : calls[id].done
    /\ Cardinality({id \in DOMAIN calls : calls[id].field = "c"}) = 1

(***************************************************************************)
(* C29  One reaction object on two owners.  When s changes, the reaction   *)
(* given to both p and q is executed for both owners: both pairs are run   *)
(* (immediate mode) or have a timer (debounced mode), and once everything  *)
(* has completed p and q both hold s + 1.                                  *)
(***************************************************************************)
C29_EveryPairProcessed ==
    /\ [][(schema = "twin" /\ IsFinish /\ last'.field = "s" /\ data'["s"] # data["s"]) =>
            IF options.debounce = 0
            THEN {"shP", "shQ"} \subseteq Range(last'.obs.runs)
            ELSE \A r \in {"shP", "shQ"} :
                    \E i \in 1..Len(timers') : timers'[i].reaction = r]_vars
    /\ []((/\ schema = "twin"
           /\ timers = << >>
           /\ \A id \in DOMAIN calls : calls[id].done
           /\ data["s"] # 0)
          => data["p"] = data["s"] + 1 /\ data["q"] = data["s"] + 1)

(***************************************************************************)
(* C30  Conditional validators.  A setField runs a validator that declares *)
(* a condition only when the condition holds of the data: when it is       *)
(* false the validator is not invoked, leaves no error record, and does    *)
(* not make the verdict false.                                             *)
(***************************************************************************)
C30_ConditionGates ==
    [][last'.op = "set" =>
         LET f  == last'.field
             id == last'.id
             vs == SchemaValidators(f)
         IN  /\ \A i \in 1..Len(vs) :
                    ~Condition(f, i, data) =>
                        /\ i \notin Range(calls'[id].invoked)
                        /\ \A k \in 1..Len(errors'[f]) : errors'[f][k].rule # vs[i].rule
             /\ (\A i \in 1..Len(vs) : ~Condition(f, i, data)) => calls'[id].ok]_vars

(***************************************************************************)
(* C31  Aggregate mode.  A call invokes every validator of its field at    *)
(* its start; the synchronous ones that fail leave one record each, in     *)
(* declaration order; an asynchronous one that settles leaves one record   *)
(* when it rejects and none when it accepts, whatever the others did, and  *)
(* does not stop the ones still pending; and the verdict of a call whose   *)
(* validators all settled is true iff every validator accepted.            *)
(***************************************************************************)
RulesOf(recs) == [k \in 1..Len(recs) |-> recs[k].rule]

RulesBy(errs, id) == RulesOf(SelectSeq(errs, LAMBDA e : e.by = id))

SyncFailRules(f, v) ==
    RulesOf(SelectSeq(SchemaValidators(f), LAMBDA x : ~x.async /\ v \notin x.accepts))

C31_AggregateMode ==
    /\ [][\A id \in NewCalls :
            LET c == calls'[id]
                n == Len(SchemaValidators(c.field))
            IN  /\ c.invoked = [k \in 1..n |-> k]
                /\ c.pend = AsyncValidators(c.field)
                /\ RulesBy(errors'[c.field], id) = SyncFailRules(c.field, c.cand)
                /\ c.ok = (SyncFailRules(c.field, c.cand) = << >>)]_vars
    /\ [][last'.op = "resolve" =>
            LET id == last'.id
                c  == calls[id]
                f  == c.field
                i  == CHOOSE k \in c.pend : k \notin calls'[id].pend
                bad == c.cand \notin SchemaValidators(f)[i].accepts
            IN  /\ calls'[id].pend = c.pend \ {i}
                /\ errors'[f] = IF bad
                                THEN Append(errors[f], [rule |-> SchemaValidators(f)[i].rule,
                                                        by |-> id,
                                                        msg |-> <<"message", SchemaValidators(f)[i].rule>>])
                                ELSE errors[f]
                /\ calls'[id].ok = (c.ok /\ ~bad)]_vars
    /\ [][(last'.op \in {"finish", "finishValidate"} /\ last'.id \in DOMAIN calls) =>
            LET c == calls[last'.id]
            IN  /\ ~c.expired => (c.ok <=> Accepted(c.field, c.cand))
                /\ (c.kind = "va" \/ requestIds[c.field] = last'.id) => last'.ret = c.ok]_vars

\* setField(a, 0) on the field with three validators: both synchronous
\* validators left their record, in declaration order, and the asynchronous
\* one was still started and accepted.
C31_Witness ==
    /\ schema = "multi"
    /\ last.op = "finish"
    /\ ~last.ret
    /\ calls[last.id].kind = "set"
    /\ calls[last.id].input = 0
    /\ calls[last.id].invoked = <<1, 2, 3>>
    /\ RulesOf(errors["a"]) = <<"required", "min">>

(***************************************************************************)
(* C32  Batch fan-out is deferred.  Neither the start of a setFields call  *)
(* nor the return of one of its entries runs or schedules a reaction or    *)
(* starts a reaction's update; setFields resumes only when every entry has *)
(* returned, and that one step runs the reactions of the batch.            *)
(***************************************************************************)
C32_BatchFanOutDeferred ==
    /\ [][last'.op = "setFields" =>
            /\ last'.obs.runs = << >>
            /\ timers' = timers
            /\ \A id \in NewCalls :
                   calls'[id].batch = last'.batch /\ calls'[id].stack = << >>]_vars
    /\ [][(IsFinish /\ calls[last'.id].kind = "set" /\ calls[last'.id].batch > 0) =>
            /\ last'.obs.runs = << >>
            /\ timers' = timers
            /\ NewCalls = {}
            /\ ~batches[calls[last'.id].batch].done]_vars
    /\ [][last'.op = "finishSetFields" =>
            /\ \A id \in Entries(calls, last'.batch) : calls[id].done
            /\ last'.obs.runs = ReactionsToTrigger(batches[last'.batch].keys)
            /\ \A id \in NewCalls : calls'[id].stack # << >>]_vars

\* setFields({a: 4, b: 1}): a was committed when its asynchronous validator
\* settled, in a step that ran nothing; rc ran when the batch resumed.
C32_Witness ==
    /\ last.op = "finishSetFields"
    /\ batches[last.batch].keys = <<"a", "b">>
    /\ last.obs.runs = <<"rc">>
    /\ \A id \in Entries(calls, last.batch) : calls[id].done /\ calls[id].ret
    /\ data["a"] = 3
    /\ \E id \in DOMAIN calls : calls[id].stack # << >> /\ calls[id].field = "c"

(***************************************************************************)
(* C33  A reaction reads its dependencies when it computes.  The value a   *)
(* reaction hands to its owner is compute of the data as the executing     *)
(* step leaves them: after the commit in the step of a setField that       *)
(* commits, after the batch in the step that resumes setFields, and of the *)
(* moment a debounce timer fires (a step that changes no data), whatever   *)
(* the values were when the timer was armed.                               *)
(***************************************************************************)
C33_ReadsAtComputeTime ==
    [][last'.obs.runs # << >> =>
         /\ \A r \in Range(last'.obs.runs) :
                \E id \in NewCalls :
                    /\ calls'[id].field = Owner(r)
                    /\ calls'[id].input = Compute(r, ValuesNow(r))
         /\ Cardinality(NewCalls) = Len(last'.obs.runs)
         /\ IsFinish =>
                /\ data'[last'.field] = calls[last'.id].cand
                /\ data'[last'.field] # data[last'.field]
                /\ \A r \in Range(last'.obs.runs) : last'.field \in Range(Deps(r))
         /\ last'.op = "fire" =>
                /\ data' = data
                /\ last'.obs.runs = <<Head(timers).reaction>>]_vars

\* Debounced: setField(a, 1) armed b's timer, setFields({a: 4}) armed it
\* again, and the one computation that followed handed 8 to b.
C33_Witness ==
    /\ options.debounce = 1
    /\ last.op = "fire"
    /\ last.obs.collapsed = 2
    /\ last.obs.runs = <<"double">>
    /\ data["a"] = 4
    /\ Len(batches) = 1
    /\ calls[nextId - 1].field = "b" /\ calls[nextId - 1].input = 8

(***************************************************************************)
(* C34  No false cycle reports.  The chain a -> b -> c has no cycle, so no *)
(* step of a setField or setFields call on it dispatches a                 *)
(* CIRCULAR_DEPENDENCY error, and a committed change of b always runs or   *)
(* schedules the reaction of c.                                            *)
(***************************************************************************)
C34_NoFalseCycle ==
    /\ [](schema = "chain" => last.obs.circ = 0)
    /\ [][(schema = "chain" /\ IsFinish /\ last'.field = "b"
             /\ ~calls[last'.id].suppress /\ data'["b"] # data["b"]) =>
            IF options.debounce = 0
            THEN last'.obs.runs = <<"succ">>
            ELSE HasTimer(timers', "succ")]_vars

(***************************************************************************)
(* C35  Derived-value consistency.  c has one reaction over a and b, no    *)
(* validators, and is never set directly.  Once no call and no timer is    *)
(* pending, if the reaction was executed at all, data[c] is compute of the *)
(* committed data[a] and data[b].                                          *)
(***************************************************************************)
C35_DerivedConsistent ==
    (/\ schema = "abc"
     /\ timers = << >>
     /\ \A id \in DOMAIN calls : calls[id].done
     /\ ReactionCalls # {})
    => data["c"] = Compute("rc", <<data["a"], data["b"]>>)

\* setField(a, 4) and setField(b, 1) were issued together; b was committed
\* first, a when its asynchronous validator settled; c is 3 + 1.
C35_Witness ==
    /\ schema = "abc"
    /\ timers = << >>
    /\ \A id \in DOMAIN calls : calls[id].done
    /\ Cardinality(ReactionCalls) = 2
    /\ calls[1].field = "a" /\ calls[2].field = "b"
    /\ last.op = "finish" /\ last.field = "c"
    /\ data["a"] = 3 /\ data["b"] = 1 /\ data["c"] = 4

(***************************************************************************)
(* C36  validateAll does not clobber a newer set.  When the validation     *)
(* that validateAll started on a field returns after a setField call       *)
(* initiated later on that field has completed, data and dirty still       *)
(* reflect the setField call: its candidate is in data when it was         *)
(* accepted, and nothing is written when it was rejected.                  *)
(***************************************************************************)
C36_ValidateAllYields ==
    [][last'.op = "finishValidate" =>
         LET f == calls[last'.id].field
         IN  \A s \in CallsOn(f) :
                (/\ calls[s].kind = "set"
                 /\ s > last'.id
                 /\ calls[s].done
                 /\ \A j \in CallsOn(f) : j <= s)
                => IF calls[s].ok
                   THEN data'[f] = calls[s].cand
                   ELSE data'[f] = data[f] /\ dirty'[f] = dirty[f]]_vars

(***************************************************************************)
(* C37  Dispose is final for in-flight sets.  After dispose(), whatever    *)
(* calls were awaiting their validation, data, dirty and errors stay       *)
(* empty, no field:change is emitted and no reaction runs.                 *)
(***************************************************************************)
C37_DisposeFinal ==
    /\ [](disposed =>
            /\ \A f \in Fields : data[f] = Undef /\ dirty[f] = Undef
            /\ \A k \in ErrorKeys : errors[k] = << >>)
    /\ [][disposed => (last'.obs.changes = << >> /\ last'.obs.runs = << >>)]_vars

(***************************************************************************)
(* C38  At most once per dispatch.  In a triggerError call, for a record   *)
(* of any kind, a listener registered once is invoked once at most.        *)
(***************************************************************************)
C38_NotifiedOnce ==
    [][last'.op \in {"triggerError", "notfound"} =>
         \A l \in DOMAIN listeners :
             /\ Count(l, last'.obs.heard) <= 1
             /\ listeners'[l].n <= listeners[l].n + 1]_vars

(***************************************************************************)
(* C39  Reaction-failure records are append-only.  No step other than      *)
(* dispose() removes a record from errors['__reactions']: the list only    *)
(* grows at its end; dispose() empties it; and while it holds a record     *)
(* getValidationSummary() is not 'Validation passed', whatever validateAll *)
(* resolved to.                                                            *)
(***************************************************************************)
C39_ReactionRecordsKept ==
    /\ [][IF last'.op = "dispose"
          THEN errors'["__reactions"] = << >>
          ELSE /\ Len(errors'["__reactions"]) >= Len(errors["__reactions"])
               /\ SubSeq(errors'["__reactions"], 1, Len(errors["__reactions"]))
                      = errors["__reactions"]]_vars
    /\ [](errors["__reactions"] # << >> =>
            GetValidationSummary(errors) # <<"Validation passed">>)

\* setField(a, 2) made b's reaction fail; validateAll() then resolved to
\* true and the record is still there.
C39_Witness ==
    /\ last.op = "finishValidateAll"
    /\ last.ret
    /\ Len(errors["__reactions"]) = 1
    /\ \A f \in Fields : errors[f] = << >>
    /\ GetValidationSummary(errors) = <<<<"__reactions", "Computation error">>>>

(***************************************************************************)
(* C40.  Pending-timer invariant: reactionTimeouts holds at most one entry *)
(* per reaction object; every entry carries the identifier of a timer that *)
(* is armed for that reaction (it has neither fired nor been cancelled);   *)
(* every armed debounce timer is the one its reaction's entry names; and   *)
(* with debounceReactions = 0 the map is empty in every reachable state.   *)
(***************************************************************************)
C40_PendingTimers ==
    /\ \A e1, e2 \in reactionTimeouts : e1.reaction = e2.reaction => e1 = e2
    /\ \A e \in reactionTimeouts :
           \E i \in 1..Len(timers) :
               timers[i].id = e.id /\ Object(timers[i].reaction) = e.reaction
    /\ \A i \in 1..Len(timers) :
           [reaction |-> Object(timers[i].reaction), id |-> timers[i].id]
               \in reactionTimeouts
    /\ \A i, j \in 1..Len(timers) : timers[i].id = timers[j].id => i = j
    /\ options.debounce = 0 => reactionTimeouts = {} /\ timers = << >>

\* Two pending timers were cancelled and re-armed under new identifiers.
C40_Witness ==
    /\ ~disposed
    /\ last.obs.cleared = 2
    /\ Cardinality(reactionTimeouts) = 2
    /\ Len(timers) = 2
    /\ \E e \in reactionTimeouts : e.id > 2

================================================================
